---- MODULE Spec2Model ----
(***************************************************************************)
(* A model of tsickle (src/src/tsickle.ts): the PostProcessor that         *)
(* rewrites CommonJS require()s into goog.require()s, and the Annotator    *)
(* that emits Closure annotations and the externs of ambient declarations. *)
(*                                                                         *)
(* Output buffers are kept as the code keeps them: arrays of emitted       *)
(* pieces (Rewriter.output is a string[], externsOutput is a string[]).    *)
(* A piece is a record naming what was emitted, so that a property can     *)
(* tell a skeleton from a type annotation.                                 *)
(***************************************************************************)
EXTENDS Integers, Sequences, FiniteSets, TLC

VARIABLES
  \* ---- PostProcessor (class PostProcessor, lines 906-1140)
  ppPc,              \* position of process(): "start", "loop", "done"
  ppFile,            \* the top-level statements of this.file visited so far
  ppOutput,          \* Rewriter.output of the PostProcessor
  moduleVariables,   \* module name -> variable, a JS object (insertion ordered)
  namespaceImports,  \* the variables bound to goog: namespace imports
  strippedStrict,    \* a "use strict" has been stripped
  unusedIndex,       \* counter of the unused_N_ placeholder names
  resolverCalls,     \* the calls made to the pathToModuleName callback
  referencedModules, \* the result of process(), <<>> before it returns
  \* ---- Annotator (class Annotator, lines 152-896)
  anPc,              \* position of annotate(): "visit", "done"
  untyped,           \* options.untyped
  anFile,            \* the nodes of this.file visited so far, "Close" ending a namespace body
  sink,              \* which buffer this.output is: "main" or "externs"
  mainOutput,        \* the Rewriter's own output buffer
  externsOutput,     \* Annotator.externsOutput
  emittedNamespaces, \* Annotator.emittedNamespaces (its own keys)
  generatedExports,  \* Annotator.generatedExports (its own keys)
  diagnostics,       \* the diagnostics of Rewriter.error
  stack,             \* the visitExterns calls in progress on namespace declarations
  result             \* what annotate() returned, NoResult before

ppVars == <<ppPc, ppFile, ppOutput, moduleVariables, namespaceImports,
            strippedStrict, unusedIndex, resolverCalls, referencedModules>>

anVars == <<anPc, untyped, anFile, sink, mainOutput, externsOutput, emittedNamespaces,
            generatedExports, diagnostics, stack, result>>

vars == <<ppVars, anVars>>

(***************************************************************************)
(* Bounds of the model.                                                    *)
(***************************************************************************)
MaxStmts == 3
\* nodes of one annotated file, and the depth of nested ambient namespaces
MaxNodes == 3
MaxDepth == 2
\* members of the enum of SpecEnum
MaxMembers == 3

(***************************************************************************)
(* JavaScript objects used as maps: own string keys, kept in insertion     *)
(* order; assigning to a key that exists keeps its position.               *)
(***************************************************************************)
ObjHas(o, k) == \E i \in DOMAIN o : o[i].key = k

ObjGet(o, k) == o[CHOOSE i \in DOMAIN o : o[i].key = k].value

\* a faulty assignment, for comparison: a key that exists is added again
ObjSetAppending(o, k, v) == Append(o, [key |-> k, value |-> v])

ObjSet(o, k, v) ==
  IF ObjHas(o, k)
    THEN [i \in DOMAIN o |-> IF o[i].key = k THEN [key |-> k, value |-> v] ELSE o[i]]
    ELSE Append(o, [key |-> k, value |-> v])

ObjKeys(o) == [i \in DOMAIN o |-> o[i].key]

Range(s) == {s[i] : i \in DOMAIN s}

(***************************************************************************)
(* Text.  A TLC string is atomic, so a string literal whose prefix the     *)
(* code inspects is kept as a sequence of segments ("goog:" is one         *)
(* segment); Raw joins them.  The empty text <<>> is JavaScript's falsy    *)
(* string, and stands for null where the code returns a string or null.    *)
(***************************************************************************)
RECURSIVE Raw(_)
Raw(t) == IF t = <<>> THEN "" ELSE Head(t) \o Raw(Tail(t))

Null == <<>>

GoogPrefix == "goog:"

\* require.match(/^goog:/)
MatchesGoog(t) == t # <<>> /\ Head(t) = GoogPrefix

\* a faulty strip, for comparison: the prefix stays
PrefixKept(t) == Raw(t)

\* require.substr(5): the text after the five characters of "goog:"
Substr5(t) == Raw(Tail(t))

(***************************************************************************)
(* Syntax nodes of the compiled JavaScript the PostProcessor reads.        *)
(***************************************************************************)
NoNode == [kind |-> "None"]
Ident(t) == [kind |-> "Identifier", text |-> t]
Str(t) == [kind |-> "StringLiteral", text |-> t]
Call(callee, args) == [kind |-> "CallExpression", expression |-> callee, arguments |-> args]
\* gap: the characters of trivia between the object and the dot, as in "ns\n .default"
PropAccess(obj, name, gap) ==
  [kind |-> "PropertyAccessExpression", expression |-> obj, name |-> name, gap |-> gap]
ExprStmt(e) == [kind |-> "ExpressionStatement", expression |-> e]
VarDecl(name, init) == [name |-> name, initializer |-> init]
VarStmt(decls) == [kind |-> "VariableStatement", declarations |-> decls]

RECURSIVE Spaces(_)
Spaces(n) == IF n = 0 THEN "" ELSE " " \o Spaces(n - 1)

RECURSIVE ArgsText(_)
RECURSIVE TextOf(_)
\* node.getText(): the source text of an expression node
TextOf(n) ==
  CASE n.kind = "Identifier" -> n.text
    [] n.kind = "StringLiteral" -> "'" \o Raw(n.text) \o "'"
    [] n.kind = "CallExpression" -> TextOf(n.expression) \o "(" \o ArgsText(n.arguments) \o ")"
    [] n.kind = "PropertyAccessExpression" ->
         TextOf(n.expression) \o Spaces(n.gap) \o "." \o n.name
    [] OTHER -> "{}"

ArgsText(args) ==
  IF args = <<>> THEN ""
  ELSE IF Len(args) = 1 THEN TextOf(args[1])
  ELSE TextOf(args[1]) \o ", " \o ArgsText(Tail(args))

DeclText(d) ==
  TextOf(d.name) \o (IF d.initializer = NoNode THEN "" ELSE " = " \o TextOf(d.initializer))

StmtText(s) ==
  IF s.kind = "ExpressionStatement" THEN TextOf(s.expression) \o ";"
  ELSE IF Len(s.declarations) = 1 THEN "var " \o DeclText(s.declarations[1]) \o ";"
  ELSE "var " \o DeclText(s.declarations[1]) \o ", " \o DeclText(s.declarations[2]) \o ";"

(***************************************************************************)
(* The inputs: the file name, the raw specifiers, the resolver callback    *)
(* handed to the constructor, and the top-level statements a file may      *)
(* hold.                                                                   *)
(***************************************************************************)
FileName == "file"

Specifiers == {<<"goog:", "m">>, <<"./p">>, <<"./q">>}

\* The pathToModuleName callback: a resolver that sends two raw specifiers
\* to the same canonical identifier ("./p" and the namespace m).
PathToModuleName(context, fileName) ==
  CASE fileName = "./p" -> "m"
    [] fileName = "./q" -> "n"
    [] fileName = "goog:m" -> "m"
    [] OTHER -> "mod." \o fileName

VarNames == {"a", "b"}

UseStrictStmt == ExprStmt(Str(<<"use strict">>))

RequireStmts ==
  {VarStmt(<<VarDecl(Ident(x), Call(Ident("require"), <<Str(s)>>))>>)
     : x \in VarNames, s \in Specifiers}
  \cup {ExprStmt(Call(Ident("require"), <<Str(s)>>)) : s \in Specifiers}

ExportStmts ==
  {ExprStmt(Call(Ident("__export"), <<Call(Ident("require"), <<Str(s)>>)>>))
     : s \in Specifiers}

\* Statements that look like a require but are none of the recognized forms.
NearMissStmts ==
  { VarStmt(<<VarDecl(Ident("a"), Call(Ident("require"), <<Str(<<"./p">>)>>)),
              VarDecl(Ident("b"), NoNode)>>),
    VarStmt(<<VarDecl([kind |-> "ObjectBindingPattern"],
                      Call(Ident("require"), <<Str(<<"./p">>)>>))>>),
    VarStmt(<<VarDecl(Ident("a"), Call(Ident("load"), <<Str(<<"./p">>)>>))>>),
    ExprStmt(Call(Ident("require"), <<Ident("b")>>)),
    ExprStmt(Call(Ident("require"), <<Str(<<>>)>>)) }

PropAccesses ==
  {PropAccess(Ident(x), "default", g) : x \in {"a", "unused_0_"}, g \in {0, 1}}
  \cup {PropAccess(Ident(x), "foo", 0) : x \in {"a", "unused_0_"}}
  \cup {PropAccess(Call(Ident("a"), <<>>), "default", 0)}
  \cup {PropAccess(PropAccess(Ident("a"), "default", 0), p, 0) : p \in {"default", "foo"}}

AccessStmts == {ExprStmt(e) : e \in PropAccesses}

Statements ==
  {UseStrictStmt} \cup RequireStmts \cup ExportStmts \cup NearMissStmts \cup AccessStmts

(***************************************************************************)
(* Emitted pieces.  at: the index of the top-level statement the piece     *)
(* belongs to (0: the goog.module header); src: the source text the piece  *)
(* stands for, "" for synthesized text.                                    *)
(***************************************************************************)
Piece(k, at, text, src, var, arg) ==
  [k |-> k, at |-> at, text |-> text, src |-> src, var |-> var, arg |-> arg]

\* writeRange(node.getFullStart(), node.getStart()): the node's leading trivia
LeadingTrivia(at) == Piece("trivia", at, "\n", "\n", "", "")

(***************************************************************************)
(* Rewriter (src/rewriter.ts is not among the sources): visit(node) calls  *)
(* maybeProcess(node) and, when that returns false, copies the node's text *)
(* while visiting its children.                                            *)
(***************************************************************************)
Verbatim(at, text) == Piece("verbatim", at, text, text, "", "")

\* PostProcessor.maybeProcess: TRUE when the node is rewritten
MaybeProcessPost(node, ni) ==
  /\ node.kind = "PropertyAccessExpression"
  /\ node.name = "default"
  /\ node.expression.kind = "Identifier"
  /\ node.expression.text \in ni

\* what maybeProcess emits for a node it rewrites: lhs and eight spaces
EmitDefaultRewrite(node, at) ==
  <<Piece("defaultRewrite", at, node.expression.text \o "        ", TextOf(node),
          node.expression.text, "")>>

RECURSIVE VisitArgs(_, _, _)
RECURSIVE VisitNode(_, _, _)
VisitNode(node, ni, at) ==
  IF MaybeProcessPost(node, ni) THEN EmitDefaultRewrite(node, at)
  ELSE CASE node.kind = "PropertyAccessExpression" ->
              VisitNode(node.expression, ni, at)
                \o <<Verbatim(at, Spaces(node.gap) \o "." \o node.name)>>
         [] node.kind = "CallExpression" ->
              VisitNode(node.expression, ni, at) \o <<Verbatim(at, "(")>>
                \o VisitArgs(node.arguments, ni, at) \o <<Verbatim(at, ")")>>
         [] OTHER -> <<Verbatim(at, TextOf(node))>>

VisitArgs(args, ni, at) ==
  IF args = <<>> THEN <<>>
  ELSE VisitNode(args[1], ni, at) \o VisitArgs(Tail(args), ni, at)

RECURSIVE VisitDecls(_, _, _)
VisitDecls(decls, ni, at) ==
  IF decls = <<>> THEN <<>>
  ELSE <<Verbatim(at, TextOf(decls[1].name))>>
       \o (IF decls[1].initializer = NoNode THEN <<>>
           ELSE <<Verbatim(at, " = ")>> \o VisitNode(decls[1].initializer, ni, at))
       \o VisitDecls(Tail(decls), ni, at)

\* this.visit(stmt) of a top-level statement
VisitStmt(stmt, ni, at) ==
  <<LeadingTrivia(at)>>
  \o (IF stmt.kind = "ExpressionStatement"
        THEN VisitNode(stmt.expression, ni, at)
        ELSE <<Verbatim(at, "var ")>> \o VisitDecls(stmt.declarations, ni, at))
  \o <<Verbatim(at, ";")>>

(***************************************************************************)
(* PostProcessor                                                           *)
(***************************************************************************)
\* isUseStrict
IsUseStrict(node) ==
  /\ node.kind = "ExpressionStatement"
  /\ node.expression.kind = "StringLiteral"
  /\ node.expression.text = <<"use strict">>

\* isRequire: the string argument of require('...'), or null
IsRequire(call) ==
  IF /\ call.expression.kind = "Identifier"
     /\ call.expression.text = "require"
     /\ Len(call.arguments) = 1
     /\ call.arguments[1].kind = "StringLiteral"
    THEN call.arguments[1].text
    ELSE Null

\* isExportRequire: the inner string of __export(require('...')), or null
IsExportRequire(call) ==
  IF /\ call.expression.kind = "Identifier"
     /\ call.expression.text = "__export"
     /\ Len(call.arguments) = 1
     /\ call.arguments[1].kind = "CallExpression"
    THEN IsRequire(call.arguments[1])
    ELSE Null

\* emitRewrittenRequires, lines 1015-1036: the call expression the statement
\* holds, NoNode where the code returns false before it has one
RequireCall(node) ==
  IF node.kind = "VariableStatement"
    THEN IF /\ Len(node.declarations) = 1
            /\ node.declarations[1].name.kind = "Identifier"
            /\ node.declarations[1].initializer.kind = "CallExpression"
           THEN node.declarations[1].initializer
           ELSE NoNode
  ELSE IF node.kind = "ExpressionStatement"
    THEN IF node.expression.kind = "CallExpression" THEN node.expression ELSE NoNode
  ELSE NoNode

\* the varName of emitRewrittenRequires: "" (undefined) for an expression statement
DeclaredVarName(node) ==
  IF node.kind = "VariableStatement" THEN node.declarations[1].name.text ELSE ""

\* lines 1038-1039: the statement is an __export(require(...))
IsExportForm(node) ==
  /\ node.kind = "ExpressionStatement"
  /\ RequireCall(node) # NoNode
  /\ IsExportRequire(RequireCall(node)) # Null

\* lines 1053-1054: the statement is var x = require(...) or require(...)
IsRequireForm(node) ==
  /\ RequireCall(node) # NoNode
  /\ ~IsExportForm(node)
  /\ IsRequire(RequireCall(node)) # Null

\* a faulty test, for comparison: the flag is not consulted
StripsEveryStrict(node) == IsUseStrict(node)

\* visitTopLevel, line 970: the statement is a "use strict" to strip
StripsStrict(node) == ~strippedStrict /\ IsUseStrict(node)

\* line 1073: this.moduleVariables.hasOwnProperty(modName)
AlreadyImported(mv, modName) == ObjHas(mv, modName)

\* line 1045: the variable recorded for an __export(require(...))
ExportVariable == "*"

\* line 1059: the placeholder of a bare require
UnusedName(i) == "unused_" \o ToString(i) \o "_"

\* process(), lines 941-943
PostStart ==
  /\ ppPc = "start"
  /\ ppPc' = "loop"
  /\ resolverCalls' = Append(resolverCalls, <<"", FileName>>)
  /\ ppOutput' = Append(ppOutput,
       Piece("googModule", 0,
             "goog.module('" \o PathToModuleName("", FileName) \o "');", "", "",
             PathToModuleName("", FileName)))
  /\ UNCHANGED <<ppFile, moduleVariables, namespaceImports, strippedStrict,
                 unusedIndex, referencedModules>>
  /\ UNCHANGED anVars

\* visitTopLevel, lines 970-974: strip the "use strict"
PostStripStrict(stmt) ==
  /\ ppPc = "loop" /\ Len(ppFile) < MaxStmts
  /\ StripsStrict(stmt)
  /\ ppFile' = Append(ppFile, stmt)
  /\ ppOutput' = Append(ppOutput, LeadingTrivia(Len(ppFile) + 1))
  /\ strippedStrict' = TRUE
  /\ UNCHANGED <<ppPc, moduleVariables, namespaceImports, unusedIndex,
                 resolverCalls, referencedModules>>
  /\ UNCHANGED anVars

\* emitRewrittenRequires, lines 1038-1047: __export(require(...))
PostExportRequire(stmt) ==
  /\ ppPc = "loop" /\ Len(ppFile) < MaxStmts
  /\ ~StripsStrict(stmt)
  /\ IsExportForm(stmt)
  /\ LET require == IsExportRequire(RequireCall(stmt))
         modName == PathToModuleName(FileName, Raw(require))
         at == Len(ppFile) + 1
     IN /\ resolverCalls' = Append(resolverCalls, <<FileName, Raw(require)>>)
        /\ ppOutput' = ppOutput \o
             <<LeadingTrivia(at),
               Piece("exportRequire", at, "__export(goog.require('" \o modName \o "'));",
                     StmtText(stmt), "", modName)>>
        /\ moduleVariables' = ObjSet(moduleVariables, modName, ExportVariable)
  /\ ppFile' = Append(ppFile, stmt)
  /\ UNCHANGED <<ppPc, namespaceImports, strippedStrict, unusedIndex, referencedModules>>
  /\ UNCHANGED anVars

\* emitRewrittenRequires, lines 1053-1079: var x = require(...) and require(...)
PostRequire(stmt) ==
  /\ ppPc = "loop" /\ Len(ppFile) < MaxStmts
  /\ ~StripsStrict(stmt)
  /\ IsRequireForm(stmt)
  /\ LET require == IsRequire(RequireCall(stmt))
         named == DeclaredVarName(stmt) # ""
         varName == IF named THEN DeclaredVarName(stmt) ELSE UnusedName(unusedIndex)
         goog == MatchesGoog(require)
         modName == IF goog THEN Substr5(require)
                    ELSE PathToModuleName(FileName, Raw(require))
         at == Len(ppFile) + 1
     IN /\ unusedIndex' = IF named THEN unusedIndex ELSE unusedIndex + 1
        /\ namespaceImports' = IF goog THEN namespaceImports \cup {varName}
                               ELSE namespaceImports
        /\ resolverCalls' = IF goog THEN resolverCalls
                            ELSE Append(resolverCalls, <<FileName, Raw(require)>>)
        /\ IF AlreadyImported(moduleVariables, modName)
             THEN /\ ppOutput' = ppOutput \o
                       <<LeadingTrivia(at),
                         Piece("alias", at,
                               "var " \o varName \o " = "
                                 \o ObjGet(moduleVariables, modName) \o ";",
                               StmtText(stmt), varName, ObjGet(moduleVariables, modName))>>
                  /\ UNCHANGED moduleVariables
             ELSE /\ ppOutput' = ppOutput \o
                       <<LeadingTrivia(at),
                         Piece("googRequire", at,
                               "var " \o varName \o " = goog.require('" \o modName \o "');",
                               StmtText(stmt), varName, modName)>>
                  /\ moduleVariables' = ObjSet(moduleVariables, modName, varName)
  /\ ppFile' = Append(ppFile, stmt)
  /\ UNCHANGED <<ppPc, strippedStrict, referencedModules>>
  /\ UNCHANGED anVars

\* visitTopLevel, line 990: any other statement is visited
PostVisit(stmt) ==
  /\ ppPc = "loop" /\ Len(ppFile) < MaxStmts
  /\ ~StripsStrict(stmt)
  /\ ~IsExportForm(stmt)
  /\ ~IsRequireForm(stmt)
  /\ ppOutput' = ppOutput \o VisitStmt(stmt, namespaceImports, Len(ppFile) + 1)
  /\ ppFile' = Append(ppFile, stmt)
  /\ UNCHANGED <<ppPc, moduleVariables, namespaceImports, strippedStrict, unusedIndex,
                 resolverCalls, referencedModules>>
  /\ UNCHANGED anVars

\* process(), lines 951-957: the end of the file
PostFinish ==
  /\ ppPc = "loop"
  /\ ppPc' = "done"
  /\ referencedModules' = ObjKeys(moduleVariables)
  /\ UNCHANGED <<ppFile, ppOutput, moduleVariables, namespaceImports, strippedStrict,
                 unusedIndex, resolverCalls>>
  /\ UNCHANGED anVars

PostInit ==
  /\ ppPc = "start"
  /\ ppFile = <<>>
  /\ ppOutput = <<>>
  /\ moduleVariables = <<>>
  /\ namespaceImports = {}
  /\ strippedStrict = FALSE
  /\ unusedIndex = 0
  /\ resolverCalls = <<>>
  /\ referencedModules = <<>>

PostNext ==
  \/ PostStart
  \/ \E stmt \in Statements : PostStripStrict(stmt)
  \/ \E stmt \in Statements : PostExportRequire(stmt)
  \/ \E stmt \in Statements : PostRequire(stmt)
  \/ \E stmt \in Statements : PostVisit(stmt)
  \/ PostFinish


(***************************************************************************)
(* Claims about the module rewrite, checked under SpecPost.  The helpers   *)
(* below read the file and the output; they restate what a claim says and  *)
(* are not part of the model of the code.                                  *)
(***************************************************************************)
IsRecognized(stmt) == IsExportForm(stmt) \/ IsRequireForm(stmt)

\* the raw specifier of a recognized statement
SpecifierOf(stmt) ==
  IF IsExportForm(stmt) THEN IsExportRequire(RequireCall(stmt))
  ELSE IsRequire(RequireCall(stmt))

HasSentinel(S) == Len(S) >= 1 /\ S[1] = "goog:"

\* the canonical module identifier a recognized statement imports
CanonicalId(stmt) ==
  LET S == SpecifierOf(stmt)
  IN IF IsRequireForm(stmt) /\ HasSentinel(S)
       THEN Raw(SubSeq(S, 2, Len(S)))
       ELSE PathToModuleName(FileName, Raw(S))

\* the variable statement i binds: its own, or the placeholder of a bare require
BoundVar(file, i) ==
  IF file[i].kind = "VariableStatement" THEN file[i].declarations[1].name.text
  ELSE "unused_"
       \o ToString(Cardinality({j \in 1..(i - 1) :
                     IsRequireForm(file[j]) /\ file[j].kind = "ExpressionStatement"}))
       \o "_"

\* what was emitted for statement i, its leading trivia apart
StmtPieces(i) == SelectSeq(ppOutput, LAMBDA p : p.at = i /\ p.k # "trivia")

SeenBefore(i) ==
  \E j \in 1..(i - 1) :
    IsRecognized(ppFile[j]) /\ CanonicalId(ppFile[j]) = CanonicalId(ppFile[i])

\* C1: a require of a module identifier already seen in the file, through
\* any recognized form, is emitted as "var X = V;" where V is the variable
\* the earlier import bound to that identifier, and no goog.require is
\* emitted for it.
C1_AliasOfEarlierImport ==
  \A i \in DOMAIN ppFile :
    (IsRequireForm(ppFile[i]) /\ SeenBefore(i)) =>
      /\ Len(StmtPieces(i)) = 1
      /\ StmtPieces(i)[1].k = "alias"
      /\ StmtPieces(i)[1].var = BoundVar(ppFile, i)
      /\ \E j \in 1..(i - 1) :
           /\ IsRequireForm(ppFile[j])
           /\ CanonicalId(ppFile[j]) = CanonicalId(ppFile[i])
           /\ StmtPieces(i)[1].arg = BoundVar(ppFile, j)
           /\ StmtPieces(i)[1].text =
                "var " \o BoundVar(ppFile, i) \o " = " \o BoundVar(ppFile, j) \o ";"

\* The same statement with the earlier import restricted to the forms that
\* bind a variable (var X = require, bare require): the part of C1 that the
\* code keeps.
C1_AliasOfEarlierRequire ==
  \A i \in DOMAIN ppFile :
    (/\ IsRequireForm(ppFile[i])
     /\ SeenBefore(i)
     /\ \A j \in 1..(i - 1) : ~IsExportForm(ppFile[j])) =>
      /\ Len(StmtPieces(i)) = 1
      /\ StmtPieces(i)[1].k = "alias"
      /\ \E j \in 1..(i - 1) :
           /\ IsRequireForm(ppFile[j])
           /\ CanonicalId(ppFile[j]) = CanonicalId(ppFile[i])
           /\ StmtPieces(i)[1].arg = BoundVar(ppFile, j)

\* the identifiers imported by the recognized statements of the file
ImportedIds == {CanonicalId(ppFile[i]) : i \in {j \in DOMAIN ppFile : IsRecognized(ppFile[j])}}

FirstOccurrence(m) ==
  CHOOSE i \in DOMAIN ppFile :
    /\ IsRecognized(ppFile[i]) /\ CanonicalId(ppFile[i]) = m
    /\ \A j \in 1..(i - 1) : ~(IsRecognized(ppFile[j]) /\ CanonicalId(ppFile[j]) = m)

\* C2: after a file is processed, referencedModules holds every imported
\* canonical identifier exactly once, in the order of first occurrence.
C2_ReferencedModulesFirstOccurrence ==
  ppPc = "done" =>
    /\ Range(referencedModules) = ImportedIds
    /\ \A i, j \in DOMAIN referencedModules :
         i < j => /\ referencedModules[i] # referencedModules[j]
                  /\ FirstOccurrence(referencedModules[i])
                       < FirstOccurrence(referencedModules[j])

\* C2 witness: a file of three imports, the third of the module of the first
C2_Witness ==
  /\ ppPc = "done"
  /\ Len(ppFile) = 3
  /\ \A i \in 1..3 : IsRecognized(ppFile[i])
  /\ CanonicalId(ppFile[1]) = "n"
  /\ CanonicalId(ppFile[2]) = "m"
  /\ CanonicalId(ppFile[3]) = "n"
  /\ IsExportForm(ppFile[3])
  /\ referencedModules = <<"n", "m">>

\* the step that processes one var X = require(S) or require(S)
RequireStep ==
  /\ Len(ppFile') = Len(ppFile) + 1
  /\ IsRequireForm(ppFile'[Len(ppFile')])
  /\ ~StripsStrict(ppFile'[Len(ppFile')])

RECURSIVE Accesses(_)
\* the property accesses of an expression, outermost first
Accesses(e) ==
  CASE e.kind = "PropertyAccessExpression" -> <<e>> \o Accesses(e.expression)
    [] e.kind = "CallExpression" -> Accesses(e.expression)
    [] OTHER -> <<>>

\* the variables recorded as namespace imports by the statements before i
NamespaceVarsBefore(i) ==
  {BoundVar(ppFile, j) : j \in {k \in 1..(i - 1) :
      IsRequireForm(ppFile[k]) /\ HasSentinel(SpecifierOf(ppFile[k]))}}

IsDefaultOfNamespace(e, i) ==
  /\ e.name = "default"
  /\ e.expression.kind = "Identifier"
  /\ e.expression.text \in NamespaceVarsBefore(i)

RECURSIVE JoinText(_)
JoinText(ps) == IF ps = <<>> THEN "" ELSE ps[1].text \o JoinText(Tail(ps))

\* C4: X.default is rewritten if and only if X is an identifier recorded as
\* a namespace import by an earlier statement; the rewritten text is X
\* followed by spaces and is as long as the original expression; every other
\* property access is emitted unchanged.
C4_DefaultAccessPadded ==
  \A i \in DOMAIN ppFile :
    (ppFile[i] \in AccessStmts) =>
      LET as == Accesses(ppFile[i].expression)
      IN /\ \A n \in DOMAIN as :
              IsDefaultOfNamespace(as[n], i) <=>
                \E q \in DOMAIN StmtPieces(i) :
                  /\ StmtPieces(i)[q].k = "defaultRewrite"
                  /\ StmtPieces(i)[q].src = TextOf(as[n])
         /\ \A q \in DOMAIN StmtPieces(i) :
              LET p == StmtPieces(i)[q]
              IN p.k = "defaultRewrite" =>
                   /\ Len(p.text) = Len(p.src)
                   /\ p.text = p.var \o Spaces(Len(p.text) - Len(p.var))
         /\ (\A n \in DOMAIN as : ~IsDefaultOfNamespace(as[n], i)) =>
              JoinText(StmtPieces(i)) = StmtText(ppFile[i])

\* C4 restricted to accesses written without trivia before the dot
C4_DefaultAccessPaddedCompact ==
  \A i \in DOMAIN ppFile :
    (ppFile[i] \in AccessStmts /\ \A n \in DOMAIN Accesses(ppFile[i].expression) :
        Accesses(ppFile[i].expression)[n].gap = 0) =>
      LET as == Accesses(ppFile[i].expression)
      IN /\ \A n \in DOMAIN as :
              IsDefaultOfNamespace(as[n], i) <=>
                \E q \in DOMAIN StmtPieces(i) :
                  /\ StmtPieces(i)[q].k = "defaultRewrite"
                  /\ StmtPieces(i)[q].src = TextOf(as[n])
         /\ \A q \in DOMAIN StmtPieces(i) :
              LET p == StmtPieces(i)[q]
              IN p.k = "defaultRewrite" =>
                   /\ Len(p.text) = Len(p.src)
                   /\ p.text = p.var \o Spaces(Len(p.text) - Len(p.var))
         /\ (\A n \in DOMAIN as : ~IsDefaultOfNamespace(as[n], i)) =>
              JoinText(StmtPieces(i)) = StmtText(ppFile[i])

\* the goog.require calls emitted for the module identifier m
GoogRequireCalls(m) ==
  {p \in DOMAIN ppOutput :
     ppOutput[p].k \in {"googRequire", "exportRequire"} /\ ppOutput[p].arg = m}

\* C15 as stated: the output holds at most one goog.require call for each
\* canonical module identifier, whichever recognized forms import it
C15_OneGoogRequirePerModule ==
  \A m \in ImportedIds : Cardinality(GoogRequireCalls(m)) <= 1

\* C15 for the two require forms alone: at most one
\* var X = goog.require('m') per identifier; every __export(require(...))
\* emits a goog.require of its own
C15_OneGoogRequirePerModuleVar ==
  /\ \A m \in ImportedIds :
       Cardinality({p \in DOMAIN ppOutput :
                      ppOutput[p].k = "googRequire" /\ ppOutput[p].arg = m}) <= 1
  /\ \A i \in DOMAIN ppFile :
       IsExportForm(ppFile[i]) /\ ppFile[i] # UseStrictStmt =>
         /\ Len(StmtPieces(i)) = 1
         /\ StmtPieces(i)[1].k = "exportRequire"

IsStrictAt(i) == ppFile[i] = UseStrictStmt

\* statement i was removed: nothing but its leading trivia was emitted
RemovedAt(i) == StmtPieces(i) = <<>>

\* C16 as stated: a "use strict" statement is removed at most once, and only
\* as the first statement of the file; at a later position it is emitted
\* unchanged
C16_StrictStrippedOnlyFirst ==
  /\ Cardinality({i \in DOMAIN ppFile : IsStrictAt(i) /\ RemovedAt(i)}) <= 1
  /\ \A i \in DOMAIN ppFile :
       IsStrictAt(i) =>
         IF i = 1 THEN RemovedAt(i)
         ELSE JoinText(StmtPieces(i)) = StmtText(ppFile[i])

\* C16 amended: the "use strict" statement removed is the first one of the
\* file, at whatever position it stands; every later one is emitted
\* unchanged, and the flag says whether one was removed
C16_FirstStrictStripped ==
  /\ \A i \in DOMAIN ppFile :
       IsStrictAt(i) =>
         IF \A j \in 1..(i - 1) : ~IsStrictAt(j)
           THEN RemovedAt(i)
           ELSE JoinText(StmtPieces(i)) = StmtText(ppFile[i])
  /\ strippedStrict <=> \E i \in DOMAIN ppFile : IsStrictAt(i)

C16_Witness ==
  /\ Len(ppFile) = 3
  /\ IsRequireForm(ppFile[1])
  /\ IsStrictAt(2) /\ RemovedAt(2)
  /\ IsStrictAt(3) /\ JoinText(StmtPieces(3)) = StmtText(UseStrictStmt)

(***************************************************************************)
(*                              Annotator                                  *)
(***************************************************************************)
\* the pieces the Annotator emits: k names the text, name the dotted name it
\* declares, type the type rendering it holds ("" when it holds none)
Base == [k |-> "", name |-> "", type |-> "", tag |-> "", rest |-> FALSE,
         optional |-> FALSE, text |-> "", params |-> <<>>, rendered |-> ""]
AP(k) == [Base EXCEPT !.k = k]
APn(k, name) == [Base EXCEPT !.k = k, !.name = name]
APt(k, type) == [Base EXCEPT !.k = k, !.type = type]

\* closureExternsBlacklist
ClosureExternsBlacklist == {"exports", "global", "module", "WorkerGlobalScope", "Symbol"}

\* a faulty blacklist test, for comparison: no name is on it
NothingBlacklisted(name) == FALSE

IsBlacklisted(name) == name \in ClosureExternsBlacklist

RECURSIVE JoinDot(_)
\* namespace.join('.')
JoinDot(ns) ==
  IF ns = <<>> THEN ""
  ELSE IF Len(ns) = 1 THEN ns[1]
  ELSE ns[1] \o "." \o JoinDot(Tail(ns))

(***************************************************************************)
(* Types.  A checker type is a record: [name] or, for an array,            *)
(* [name |-> "Array", typeArguments].  TypeTranslator (type-translator.ts  *)
(* is not among the sources) renders it; by its contract it never returns  *)
(* the empty string.                                                       *)
(***************************************************************************)
T(name) == [name |-> name, typeArguments |-> <<>>]
ArrayOf(t) == [name |-> "Array", typeArguments |-> <<t>>]

RECURSIVE Translate(_, _)
Translate(type, destructuring) ==
  IF type.name = "Array"
    THEN (IF destructuring THEN "!" ELSE "") \o "Array<"
           \o Translate(type.typeArguments[1], destructuring) \o ">"
    ELSE type.name

\* typeToClosure
TypeToClosure(ut, type, destructuring) ==
  IF ut THEN "?" ELSE Translate(type, destructuring)

(***************************************************************************)
(* Documentation comments.  The last leading comment of a node is kept     *)
(* split in lines: [tagName, braces, parameterName, text], tagName "" for  *)
(* a line of plain text, braces TRUE when the text after the tag starts    *)
(* with "{".  NoComment: the node has no leading comment.                  *)
(***************************************************************************)
NoComment == [isJSDoc |-> FALSE, lines |-> <<>>, present |-> FALSE]
JSDoc(lines) == [isJSDoc |-> TRUE, lines |-> lines, present |-> TRUE]
DocLine(tagName, braces, parameterName, text) ==
  [tagName |-> tagName, braces |-> braces, parameterName |-> parameterName, text |-> text]

\* getJSDocAnnotation, lines 99-104: the comment is rejected
JSDocThrows(comment) ==
  /\ comment.isJSDoc
  /\ \E i \in DOMAIN comment.lines :
       LET l == comment.lines[i]
       IN \/ l.tagName = "type"
          \/ (l.tagName \in {"param", "return"} /\ l.braces)

RECURSIVE ParseLines(_, _)
\* getJSDocAnnotation, lines 95-126: the tags of the lines.  hasText FALSE:
\* the tag's text is undefined, which += turns into the word "undefined"
ParseLines(lines, tags) ==
  IF lines = <<>> THEN tags
  ELSE LET l == lines[1]
       IN IF l.tagName # ""
            THEN ParseLines(Tail(lines),
                   Append(tags, [tagName |-> l.tagName,
                                 parameterName |-> IF l.tagName = "param"
                                                     THEN l.parameterName ELSE "",
                                 hasText |-> l.text # "",
                                 text |-> l.text]))
          ELSE IF tags = <<>>
            THEN ParseLines(Tail(lines),
                   <<[tagName |-> "", parameterName |-> "", hasText |-> TRUE,
                      text |-> l.text]>>)
          ELSE ParseLines(Tail(lines),
                 [tags EXCEPT ![Len(tags)].text =
                                 (IF tags[Len(tags)].hasText THEN @ ELSE "undefined")
                                   \o " " \o l.text,
                              ![Len(tags)].hasText = TRUE])

\* getJSDoc: the tags of the node's comment; <<>> where the code returns
\* null or {tags: []} (its callers replace null by {tags: []})
GetJSDoc(node) ==
  IF ~node.doc.present \/ ~node.doc.isJSDoc \/ JSDocThrows(node.doc) THEN <<>>
  ELSE ParseLines(node.doc.lines, <<>>)

\* getJSDoc, lines 577-579: the diagnostics of a rejected comment
GetJSDocErrors(node) ==
  IF node.doc.present /\ JSDocThrows(node.doc)
    THEN <<[node |-> node, message |-> "type annotations are not allowed"]>>
    ELSE <<>>

(***************************************************************************)
(* Declarations of the annotated file.                                     *)
(***************************************************************************)
Param(name, type) ==
  [name |-> name, nameKind |-> "Identifier", type |-> type, initializer |-> FALSE,
   questionToken |-> FALSE, dotDotDotToken |-> FALSE, visibility |-> FALSE]

Signature(kind, name, parameters, returnType, hasBody, doc) ==
  [kind |-> kind, name |-> name, nameKind |-> "Identifier", type |-> T("Function"),
   static |-> FALSE, parameters |-> parameters, returnType |-> returnType,
   hasBody |-> hasBody, doc |-> doc]

Property(kind, name, nameKind, type, static) ==
  [kind |-> kind, name |-> name, nameKind |-> nameKind, type |-> type,
   static |-> static, doc |-> NoComment]

RECURSIVE FirstText(_, _, _)
\* lines 403-408 and 417-422: the text of the first hand-written tag of that
\* tagName (and parameterName), "" when there is none
FirstText(tags, tagName, parameterName) ==
  IF tags = <<>> THEN ""
  ELSE IF tags[1].tagName = tagName /\ tags[1].parameterName = parameterName
    THEN tags[1].text
  ELSE FirstText(Tail(tags), tagName, parameterName)

\* a faulty tag, for comparison: the Array<> wrapper of a rest parameter is
\* kept and a parameter with a default value is not optional
ParamTagOfDeclaredType(ut, jsDoc, paramNode) ==
  [AP("tag") EXCEPT
     !.tag = "param",
     !.optional = paramNode.questionToken,
     !.name = paramNode.name,
     !.rest = paramNode.dotDotDotToken,
     !.type = TypeToClosure(ut, paramNode.type, FALSE),
     !.text = FirstText(jsDoc, "param", paramNode.name)]

\* lines 382-409: the @param tag of parameter i
ParamTag(ut, jsDoc, paramNode) ==
  LET destructuring == paramNode.nameKind \in {"ArrayBindingPattern", "ObjectBindingPattern"}
      type == IF paramNode.dotDotDotToken THEN paramNode.type.typeArguments[1]
              ELSE paramNode.type
  IN [AP("tag") EXCEPT
        !.tag = "param",
        !.optional = paramNode.initializer \/ paramNode.questionToken,
        !.name = paramNode.name,
        !.rest = paramNode.dotDotDotToken,
        !.type = TypeToClosure(ut, type, destructuring),
        !.text = FirstText(jsDoc, "param", paramNode.name)]

\* a faulty copy, for comparison: @param and @return are copied too
CopiedTagsUnfiltered(jsDoc) ==
  [i \in DOMAIN jsDoc |->
     [AP("tag") EXCEPT !.tag = jsDoc[i].tagName, !.text = jsDoc[i].text]]

\* lines 368-371: the hand-written tags other than @param and @return
CopiedTags(jsDoc) ==
  LET kept == SelectSeq(jsDoc, LAMBDA t : t.tagName \notin {"param", "return"})
  IN [i \in DOMAIN kept |->
        [AP("tag") EXCEPT !.tag = kept[i].tagName, !.text = kept[i].text]]

\* lines 414-428: the @return tag, none for a constructor
ReturnTag(ut, jsDoc, fnDecl) ==
  IF fnDecl.kind = "Constructor" THEN <<>>
  ELSE <<[AP("tag") EXCEPT !.tag = "return",
                           !.type = TypeToClosure(ut, fnDecl.returnType, FALSE),
                           !.text = FirstText(jsDoc, "return", "")]>>

\* lines 436-456: the line of the comment block written for a tag
RenderTag(tag) ==
  " * "
  \o (IF tag.tag # "" THEN "@" \o tag.tag ELSE "")
  \o (IF tag.type # ""
        THEN " {" \o (IF tag.rest THEN "..." ELSE "") \o tag.type
             \o (IF tag.optional THEN "=" ELSE "") \o "}"
        ELSE "")
  \o (IF tag.name # "" THEN " " \o tag.name ELSE "")
  \o (IF tag.text # "" THEN " " \o tag.text ELSE "")
  \o "\n"

\* emitFunctionType: the comment block of a callable
EmitFunctionType(ut, fnDecl, extraTags) ==
  LET jsDoc == GetJSDoc(fnDecl)
      tags == extraTags
              \o CopiedTags(jsDoc)
              \o [i \in DOMAIN fnDecl.parameters |->
                    ParamTag(ut, jsDoc, fnDecl.parameters[i])]
              \o ReturnTag(ut, jsDoc, fnDecl)
  IN <<AP("docOpen")>>
     \o [i \in DOMAIN tags |-> [tags[i] EXCEPT !.rendered = RenderTag(tags[i])]]
     \o <<AP("docClose")>>

\* emitJSDocType: " /** @type {T} */"
EmitJSDocType(ut, node) == <<APt("jsDocType", TypeToClosure(ut, node.type, FALSE))>>

\* propertyName: "" where the code returns null
PropertyName(prop) ==
  IF prop.nameKind \in {"Identifier", "StringLiteral"} THEN prop.name ELSE ""

\* visitProperty
VisitProperty(ut, namespace, prop) ==
  IF PropertyName(prop) = "" THEN <<AP("todoStrangeMember")>>
  ELSE <<APt("propType", TypeToClosure(ut, prop.type, FALSE)),
         APn("propDecl", JoinDot(namespace \o <<PropertyName(prop)>>))>>

RECURSIVE VisitProperties(_, _, _)
VisitProperties(ut, namespace, props) ==
  IF props = <<>> THEN <<>>
  ELSE VisitProperty(ut, namespace, props[1]) \o VisitProperties(ut, namespace, Tail(props))

\* writeRange / writeNode of a node's own text
AVerbatim(node) == <<APn("verbatim", node.name)>>

\* emitInterface
EmitInterface(ut, iface) ==
  IF ut THEN <<>>
  ELSE <<AP("recordDoc"), APn("recordFn", iface.name)>>
       \o VisitProperties(ut, <<iface.name, "prototype">>, iface.members)

\* emitTypeAnnotationsHelper
EmitTypeAnnotationsHelper(ut, classDecl) ==
  LET ctors == SelectSeq(classDecl.members, LAMBDA m : m.kind = "Constructor")
      props == SelectSeq(classDecl.members, LAMBDA m : m.kind = "PropertyDeclaration")
      staticProps == SelectSeq(props, LAMBDA m : m.static)
      nonStaticProps == SelectSeq(props, LAMBDA m : ~m.static)
      paramProps == IF Len(ctors) > 0
                      THEN SelectSeq(ctors[1].parameters, LAMBDA q : q.visibility)
                      ELSE <<>>
      memberNamespace == <<classDecl.name, "prototype">>
  IN IF Len(nonStaticProps) = 0 /\ Len(paramProps) = 0 /\ Len(staticProps) = 0
       THEN <<>>
       ELSE <<AP("helperOpen")>>
            \o VisitProperties(ut, <<classDecl.name>>, staticProps)
            \o VisitProperties(ut, memberNamespace, nonStaticProps)
            \o VisitProperties(ut, memberNamespace, paramProps)
            \o <<AP("helperClose")>>

\* maybeProcess of a class member: Constructor, MethodDeclaration, or the
\* default pass-through
VisitMember(ut, member) ==
  IF member.kind = "Constructor" \/ (member.kind = "MethodDeclaration" /\ member.hasBody)
    THEN EmitFunctionType(ut, member, <<>>) \o AVerbatim(member)
    ELSE AVerbatim(member)

RECURSIVE VisitMembers(_, _)
VisitMembers(ut, members) ==
  IF members = <<>> THEN <<>>
  ELSE VisitMember(ut, members[1]) \o VisitMembers(ut, Tail(members))

\* maybeProcess, case ClassDeclaration
ProcessClass(ut, classNode) ==
  <<APn("classHeader", classNode.name)>>
  \o VisitMembers(ut, classNode.members)
  \o EmitTypeAnnotationsHelper(ut, classNode)
  \o <<AP("classClose")>>

\* a faulty visitTypeAlias, for comparison: untyped is not consulted
TypedefAlways(ut, node) ==
  <<APt("typedef", TypeToClosure(ut, node.type, FALSE)), APn("typedefVar", node.name)>>

\* visitTypeAlias
VisitTypeAlias(ut, node) ==
  IF ut THEN <<>>
  ELSE <<APt("typedef", TypeToClosure(ut, node.type, FALSE)), APn("typedefVar", node.name)>>

(***************************************************************************)
(* Enums.  A member's initializer is "none", "constant" (getConstantValue  *)
(* returns value) or "expression" (getConstantValue returns undefined).    *)
(***************************************************************************)
EnumMember(name, initializer, value) ==
  [name |-> name, initializer |-> initializer, value |-> value]

\* a faulty counter, for comparison: the constant is not taken up
CounterIgnoringConstant(i, v) == i + 1

\* line 809: the counter after a member with the constant value v
CounterAfterConstant(i, v) == v + 1

\* line 830: the counter after a member with no initializer
CounterAfterImplicit(i) == i + 1

RECURSIVE GatherMembers(_, _, _)
\* maybeProcessEnum, lines 801-832: the members object, from the members
\* still to walk, the object so far and the counter i
GatherMembers(rest, members, i) ==
  IF rest = <<>> THEN members
  ELSE LET member == rest[1]
       IN IF member.initializer = "constant"
            THEN GatherMembers(Tail(rest),
                   ObjSet(members, member.name, [number |-> TRUE, v |-> member.value]),
                   CounterAfterConstant(i, member.value))
          ELSE IF member.initializer = "expression"
            THEN GatherMembers(Tail(rest),
                   ObjSet(members, member.name, [number |-> FALSE, v |-> 0]), i)
          ELSE GatherMembers(Tail(rest),
                 ObjSet(members, member.name, [number |-> TRUE, v |-> i]),
                 CounterAfterImplicit(i))

\* lines 857-867: the assignment of one member; an initializer expression is
\* visited, that is emitted as it stands
EmitEnumValue(ut, name, entry) ==
  (IF ut THEN <<>> ELSE <<APt("enumMemberType", "number")>>)
  \o <<[APn("enumValue", name \o "." \o entry.key) EXCEPT
          !.tag = IF entry.value.number THEN "number" ELSE "initializer",
          !.text = IF entry.value.number THEN ToString(entry.value.v)
                   ELSE "initializer of " \o entry.key]>>

RECURSIVE EmitEnumValues(_, _, _)
EmitEnumValues(ut, name, entries) ==
  IF entries = <<>> THEN <<>>
  ELSE EmitEnumValue(ut, name, entries[1]) \o EmitEnumValues(ut, name, Tail(entries))

\* a faulty loop, for comparison: the reverse-lookup assignments run backwards
EmitEnumReverseBackwards(name, entries) ==
  [i \in DOMAIN entries |->
     [APn("enumReverse", name \o "." \o entries[Len(entries) + 1 - i].key) EXCEPT
        !.text = entries[Len(entries) + 1 - i].key]]

\* lines 870-872: the reverse-lookup assignments
EmitEnumReverse(name, entries) ==
  [i \in DOMAIN entries |->
     [APn("enumReverse", name \o "." \o entries[i].key) EXCEPT !.text = entries[i].key]]

\* maybeProcessEnum; a const enum is left to the default pass-through
MaybeProcessEnum(ut, node) ==
  IF node.const THEN AVerbatim(node)
  ELSE LET members == GatherMembers(node.members, <<>>, 0)
       IN <<[APn("enumAlias", node.name) EXCEPT !.tag = IF node.export THEN "export" ELSE ""],
            [APn("enumLet", node.name) EXCEPT !.tag = IF node.export THEN "export" ELSE ""]>>
          \o EmitEnumValues(ut, node.name, members)
          \o EmitEnumReverse(node.name, members)

(***************************************************************************)
(* Externs.                                                                *)
(***************************************************************************)
\* writeExternsFunction: the skeleton function of a dotted name; tag: the
\* kind of declaration it is emitted for
WriteExternsFunction(origin, name, params, namespace) ==
  <<[APn("fnSkeleton", JoinDot(namespace \o <<name>>)) EXCEPT
       !.tag = origin,
       !.params = [i \in DOMAIN params |-> params[i].name],
       !.text = IF Len(namespace) > 0 THEN "assigned" ELSE "function"]>>

RECURSIVE WriteExternsMembers(_, _, _)
\* writeExternsType, lines 682-711
WriteExternsMembers(ut, typeName, members) ==
  IF members = <<>> THEN <<>>
  ELSE LET member == members[1]
       IN (CASE member.kind \in {"PropertySignature", "PropertyDeclaration"} ->
                  EmitJSDocType(ut, member)
                    \o <<APn("propDecl", typeName \o ".prototype." \o member.name)>>
             [] member.kind \in {"MethodSignature", "MethodDeclaration"} ->
                  EmitFunctionType(ut, member, <<>>)
                    \o <<APn("methodDecl", typeName \o ".prototype." \o member.name)>>
             [] member.kind = "Constructor" -> <<>>
             [] OTHER -> <<AP("todo")>>)
          \o WriteExternsMembers(ut, typeName, Tail(members))

\* writeExternsType, after the blacklist check
WriteExternsType(ut, decl, namespace) ==
  LET typeName == JoinDot(namespace \o <<decl.name>>)
      ctors == SelectSeq(decl.members, LAMBDA m : m.kind = "Constructor")
  IN IF IsBlacklisted(typeName) THEN <<>>
     ELSE (IF decl.kind = "ClassDeclaration"
             THEN IF Len(ctors) > 0
                    THEN EmitFunctionType(ut, ctors[1],
                           <<[AP("tag") EXCEPT !.tag = "constructor"],
                             [AP("tag") EXCEPT !.tag = "struct"]>>)
                    ELSE <<AP("constructorDoc")>>
             ELSE <<AP("recordDoc")>>)
          \o WriteExternsFunction(decl.kind, decl.name,
                IF decl.kind = "ClassDeclaration" /\ Len(ctors) > 0
                  THEN ctors[1].parameters ELSE <<>>,
                namespace)
          \o WriteExternsMembers(ut, typeName, decl.members)

\* a faulty check, for comparison: the diagnostic stands at the first constructor
ErrorAtFirstConstructor(decl, namespace) ==
  LET ctors == SelectSeq(decl.members, LAMBDA m : m.kind = "Constructor")
  IN IF Len(ctors) > 1
       THEN <<[node |-> ctors[1],
               message |-> "multiple constructor signatures in declarations"]>>
       ELSE <<>>

\* writeExternsType: the diagnostic of a second constructor (lines 667-669),
\* then those of getJSDoc for the first constructor and for the methods
WriteExternsTypeErrors(decl, namespace) ==
  LET ctors == SelectSeq(decl.members, LAMBDA m : m.kind = "Constructor")
      isClass == decl.kind = "ClassDeclaration"
      documented == SelectSeq(decl.members, LAMBDA m :
                      /\ m.kind \in {"MethodSignature", "MethodDeclaration"}
                      /\ GetJSDocErrors(m) # <<>>)
  IN IF IsBlacklisted(JoinDot(namespace \o <<decl.name>>)) THEN <<>>
     ELSE (IF isClass /\ Len(ctors) > 1
             THEN <<[node |-> ctors[2],
                     message |-> "multiple constructor signatures in declarations"]>>
             ELSE <<>>)
          \o (IF isClass /\ Len(ctors) > 0 THEN GetJSDocErrors(ctors[1]) ELSE <<>>)
          \o [i \in DOMAIN documented |-> GetJSDocErrors(documented[i])[1]]

\* writeExternsVariable
WriteExternsVariable(ut, decl, namespace) ==
  IF decl.nameKind = "Identifier"
    THEN IF IsBlacklisted(JoinDot(namespace \o <<decl.name>>)) THEN <<>>
         ELSE EmitJSDocType(ut, decl)
              \o <<[APn("varDecl", JoinDot(namespace \o <<decl.name>>)) EXCEPT
                      !.text = IF Len(namespace) > 0 THEN "qualified" ELSE "var"]>>
    ELSE <<>>

\* writeExternsVariable, line 726: errorUnimplementedKind
WriteExternsVariableErrors(decl) ==
  IF decl.nameKind = "Identifier" THEN <<>>
  ELSE <<[node |-> decl, message |-> "externs for variable not implemented"]>>

RECURSIVE WriteExternsVariables(_, _, _)
WriteExternsVariables(ut, decls, namespace) ==
  IF decls = <<>> THEN <<>>
  ELSE WriteExternsVariable(ut, decls[1], namespace)
       \o WriteExternsVariables(ut, Tail(decls), namespace)

\* writeExternsEnum
WriteExternsEnum(decl, namespace) ==
  LET ns == namespace \o <<decl.name>>
  IN <<AP("constDoc"), APn("enumSkeleton", JoinDot(ns))>>
     \o [i \in 1..(2 * Len(decl.members)) |->
           IF i % 2 = 1 THEN APt("enumMemberType", "number")
           ELSE APn("enumMember", JoinDot(ns \o <<decl.members[i \div 2].name>>))]

(***************************************************************************)
(* The nodes an annotated file may hold.  ambient: the node carries the    *)
(* declare modifier (node.flags & ts.NodeFlags.Ambient); the statements of *)
(* a declared namespace do not carry it themselves.                        *)
(***************************************************************************)
ModuleDecl(name, nameKind, ambient) ==
  [kind |-> "ModuleDeclaration", name |-> name, nameKind |-> nameKind, ambient |-> ambient]

TypeDecl(kind, name, members, ambient) ==
  [kind |-> kind, name |-> name, members |-> members, ambient |-> ambient]

FunctionDecl(name, parameters, returnType, hasBody, doc, ambient) ==
  [kind |-> "FunctionDeclaration", name |-> name, parameters |-> parameters,
   returnType |-> returnType, hasBody |-> hasBody, doc |-> doc, ambient |-> ambient]

VarDeclaration(name, nameKind, type) == [name |-> name, nameKind |-> nameKind, type |-> type]

VarStatement(declarations, ambient) ==
  [kind |-> "VariableStatement", name |-> declarations[1].name,
   declarations |-> declarations, ambient |-> ambient]

EnumDecl(name, const, export, members, ambient) ==
  [kind |-> "EnumDeclaration", name |-> name, const |-> const, export |-> export,
   members |-> members, ambient |-> ambient]

TypeAlias(name, type, ambient) ==
  [kind |-> "TypeAliasDeclaration", name |-> name, type |-> type, ambient |-> ambient]

TypeAssertion(name, type) ==
  [kind |-> "TypeAssertionExpression", name |-> name, type |-> type, ambient |-> FALSE]

OtherStatement(name) == [kind |-> "ExpressionStatement", name |-> name, ambient |-> FALSE]

Close == [kind |-> "Close", name |-> "", ambient |-> FALSE]

RestParam(name, type) == [Param(name, type) EXCEPT !.dotDotDotToken = TRUE]
ParamProperty(name, type) == [Param(name, type) EXCEPT !.visibility = TRUE]

AmbientClassMembers ==
  << Signature("Constructor", "constructor", <<Param("x", T("number"))>>, T("void"),
               FALSE, NoComment),
     Property("PropertyDeclaration", "p", "Identifier", T("string"), FALSE),
     Signature("MethodDeclaration", "m", <<RestParam("r", ArrayOf(T("string")))>>,
               T("number"), FALSE, NoComment) >>

InterfaceMembers ==
  << Property("PropertySignature", "p", "Identifier", T("number"), FALSE),
     Signature("MethodSignature", "m", <<>>, T("string"), FALSE, NoComment) >>

ClassMembers ==
  << Property("PropertyDeclaration", "s", "Identifier", T("number"), TRUE),
     Property("PropertyDeclaration", "p", "Identifier", T("string"), FALSE),
     Signature("Constructor", "constructor",
               <<ParamProperty("q", T("number")), Param("r", T("string"))>>, T("void"),
               TRUE, NoComment),
     Signature("MethodDeclaration", "m", <<Param("x", T("number"))>>, T("string"),
               TRUE, NoComment) >>

ExampleDoc ==
  JSDoc(<<DocLine("", FALSE, "", "Does it."), DocLine("export", FALSE, "", ""),
          DocLine("param", FALSE, "x", "the x")>>)

\* a comment with two @param of one name, a @param of no parameter, two
\* @return and other tags between them
MixedDoc ==
  JSDoc(<<DocLine("", FALSE, "", "Does it."),
          DocLine("param", FALSE, "y", "the y"),
          DocLine("export", FALSE, "", ""),
          DocLine("param", FALSE, "x", "first x"),
          DocLine("return", FALSE, "", "the result"),
          DocLine("param", FALSE, "x", "second x"),
          DocLine("deprecated", FALSE, "", "use g"),
          DocLine("return", FALSE, "", "again"),
          DocLine("param", FALSE, "w", "no such parameter")>>)

AmbientNames == {"a", "Symbol"}

\* the declarations of an ambient region
AmbientDecls(flag) ==
  {ModuleDecl(n, "Identifier", flag) : n \in AmbientNames}
  \cup {ModuleDecl("x", "StringLiteral", flag)}
  \cup {TypeDecl("ClassDeclaration", n, AmbientClassMembers, flag) : n \in AmbientNames}
  \cup {TypeDecl("InterfaceDeclaration", n, InterfaceMembers, flag) : n \in AmbientNames}
  \cup {FunctionDecl(n, <<Param("x", T("number"))>>, T("string"), FALSE, NoComment, flag)
          : n \in AmbientNames}
  \cup {VarStatement(<<VarDeclaration(n, "Identifier", T("number"))>>, flag)
          : n \in AmbientNames}
  \cup {EnumDecl(n, FALSE, FALSE, <<EnumMember("A", "none", 0)>>, flag) : n \in AmbientNames}
  \cup {TypeAlias("t", T("string"), flag)}

ExampleEnumMembers ==
  <<EnumMember("A", "none", 0), EnumMember("B", "constant", 5), EnumMember("C", "none", 0)>>

\* the declarations outside ambient regions
NonAmbientNodes ==
  { TypeDecl("InterfaceDeclaration", "I", InterfaceMembers, FALSE),
    TypeDecl("ClassDeclaration", "K", ClassMembers, FALSE),
    FunctionDecl("g", <<Param("x", T("number"))>>, T("string"), TRUE, ExampleDoc, FALSE),
    VarStatement(<<VarDeclaration("v", "Identifier", T("number"))>>, FALSE),
    EnumDecl("E", FALSE, TRUE, ExampleEnumMembers, FALSE),
    EnumDecl("CE", TRUE, FALSE, ExampleEnumMembers, FALSE),
    TypeAlias("t", T("string"), FALSE),
    TypeAssertion("e", T("string")),
    OtherStatement("s") }

\* comments that getJSDocAnnotation rejects
TypeTagDoc == JSDoc(<<DocLine("type", TRUE, "", "{number}")>>)
ParamTypeDoc == JSDoc(<<DocLine("", FALSE, "", "Does it."),
                        DocLine("param", TRUE, "", "{number} x the x")>>)
ReturnTypeDoc == JSDoc(<<DocLine("return", TRUE, "", "{string} it")>>)

\* a variable statement with a leading comment
DocVarStatement(declarations, doc, ambient) ==
  [kind |-> "VariableStatement", name |-> declarations[1].name,
   declarations |-> declarations, doc |-> doc, ambient |-> ambient]

Ctor(parameters, doc) ==
  Signature("Constructor", "constructor", parameters, T("void"), FALSE, doc)

\* the members of a declared class with two constructor signatures
TwoCtorMembers ==
  << Ctor(<<Param("x", T("number"))>>, NoComment),
     Property("PropertyDeclaration", "p", "Identifier", T("string"), FALSE),
     Ctor(<<Param("x", T("number")), Param("y", T("string"))>>, NoComment),
     Signature("MethodDeclaration", "m", <<>>, T("number"), FALSE, NoComment) >>

\* three constructor signatures, the first under a rejected comment
ThreeCtorMembers ==
  << Ctor(<<>>, ParamTypeDoc),
     Ctor(<<Param("x", T("number"))>>, NoComment),
     Ctor(<<Param("x", T("number")), Param("y", T("string"))>>, NoComment),
     Property("PropertyDeclaration", "p", "Identifier", T("string"), FALSE) >>

\* declarations of an ambient region that make the pass record diagnostics
FaultyDecls(flag) ==
  { ModuleDecl("a", "Identifier", flag),
    TypeDecl("ClassDeclaration", "a", TwoCtorMembers, flag),
    TypeDecl("ClassDeclaration", "Symbol", TwoCtorMembers, flag),
    TypeDecl("ClassDeclaration", "b", ThreeCtorMembers, flag),
    FunctionDecl("f", <<Param("x", T("number"))>>, T("string"), FALSE, TypeTagDoc, flag) }

\* documented declarations outside ambient regions
DocumentedNodes ==
  { FunctionDecl("g", <<Param("x", T("number"))>>, T("string"), TRUE, ParamTypeDoc, FALSE),
    FunctionDecl("h", <<Param("x", T("number"))>>, T("string"), FALSE, ReturnTypeDoc, FALSE),
    FunctionDecl("k", <<Param("x", T("number"))>>, T("string"), TRUE, ExampleDoc, FALSE),
    DocVarStatement(<<VarDeclaration("v", "Identifier", T("number"))>>, TypeTagDoc, FALSE),
    OtherStatement("s") }

\* the declared classes and functions of SpecDecl
DeclaredInputs ==
  {TypeDecl("ClassDeclaration", "a",
            <<Signature("Constructor", "constructor",
                        <<Param("x", T("number")), Param("y", T("string"))>>,
                        T("void"), FALSE, d),
              Signature("MethodDeclaration", "m", <<Param("x", T("number"))>>,
                        T("string"), FALSE, d)>>, TRUE)
     : d \in {NoComment, ExampleDoc, MixedDoc}}
  \cup {FunctionDecl("f", <<Param("x", T("number"))>>, T("string"), FALSE, d, TRUE)
          : d \in {NoComment, MixedDoc}}

TopLevelNodes ==
  AmbientDecls(TRUE) \cup NonAmbientNodes \cup FaultyDecls(TRUE) \cup DocumentedNodes
  \cup DeclaredInputs

NestedNodes == AmbientDecls(FALSE) \cup FaultyDecls(FALSE)

\* the functions of SpecDecl: parameter lists of a checked program (no two
\* parameters of one name, a rest parameter last, no required parameter
\* after one with a question mark)
MaxParams == 2
ParamNames == {"x", "y", "z"}
ParamChoices ==
  UNION {{ Param(n, T("number")),
           [Param(n, T("string")) EXCEPT !.initializer = TRUE],
           [Param(n, T("string")) EXCEPT !.questionToken = TRUE],
           RestParam(n, ArrayOf(T("string"))),
           RestParam(n, ArrayOf(ArrayOf(T("number")))),
           [Param(n, T("Object")) EXCEPT !.nameKind = "ObjectBindingPattern"],
           [Param(n, ArrayOf(T("number"))) EXCEPT !.nameKind = "ArrayBindingPattern",
                                                  !.initializer = TRUE] }
         : n \in ParamNames}

ParamLists ==
  {ps \in UNION {[1..n -> ParamChoices] : n \in 0..MaxParams} :
     /\ \A i, j \in DOMAIN ps : i # j => ps[i].name # ps[j].name
     /\ \A i \in DOMAIN ps : ps[i].dotDotDotToken => i = Len(ps)
     /\ \A i, j \in DOMAIN ps :
          (i < j /\ ps[i].questionToken)
          => (ps[j].questionToken \/ ps[j].initializer \/ ps[j].dotDotDotToken)}

FunctionInputs ==
  {FunctionDecl("f", ps, T("string"), TRUE, d, FALSE)
     : ps \in ParamLists, d \in {NoComment, ExampleDoc, MixedDoc}}

\* the classes of SpecDecl: the constructors stand together, the last of
\* them is the implementation, the others are overload signatures
ClassMemberChoices ==
  { Property("PropertyDeclaration", "p", "Identifier", T("string"), FALSE),
    Property("PropertyDeclaration", "s", "Identifier", T("number"), TRUE),
    Signature("Constructor", "constructor", <<Param("x", T("number"))>>, T("void"),
              FALSE, NoComment),
    Signature("Constructor", "constructor", <<ParamProperty("q", T("number"))>>,
              T("void"), TRUE, NoComment),
    Signature("Constructor", "constructor", <<Param("x", T("number"))>>, T("void"),
              TRUE, MixedDoc),
    Signature("MethodDeclaration", "m", <<Param("x", T("number"))>>, T("string"),
              TRUE, ExampleDoc) }

ClassMemberLists ==
  {ms \in UNION {[1..n -> ClassMemberChoices] : n \in 0..MaxMembers} :
     /\ \A i, j \in DOMAIN ms :
          (i # j /\ ms[i].kind # "Constructor") => ms[i].name # ms[j].name
     /\ \A i, j \in DOMAIN ms :
          (i < j /\ ms[i].kind = "Constructor" /\ ms[j].kind = "Constructor")
          => /\ ~ms[i].hasBody
             /\ \A h \in i..j : ms[h].kind = "Constructor"
     /\ \A i \in DOMAIN ms :
          (ms[i].kind = "Constructor" /\ ~ms[i].hasBody)
          => (i < Len(ms) /\ ms[i + 1].kind = "Constructor")}

ClassInputs == {TypeDecl("ClassDeclaration", "K", ms, FALSE) : ms \in ClassMemberLists}

\* the enums of SpecEnum
MemberNames == {"A", "B", "C", "D"}
ConstantValues == {-1, 0, 5}
MemberChoices ==
  {EnumMember(n, "none", 0) : n \in MemberNames}
  \cup {EnumMember(n, "expression", 0) : n \in MemberNames}
  \cup {EnumMember(n, "constant", v) : n \in MemberNames, v \in ConstantValues}

\* member lists of a checked program: no two members of one name
MemberLists ==
  UNION {{ml \in [1..len -> MemberChoices] :
            \A i, j \in 1..len : i # j => ml[i].name # ml[j].name} : len \in 0..MaxMembers}

EnumInputs == {EnumDecl("E", FALSE, e, ml, FALSE) : e \in BOOLEAN, ml \in MemberLists}

(***************************************************************************)
(* The walk.  this.output is one of two buffers; st carries both and which *)
(* one is current.                                                         *)
(***************************************************************************)
Buffers == [main |-> mainOutput, externs |-> externsOutput, sink |-> sink]

\* Rewriter.emit: append to the buffer this.output is
Emit(st, pieces) ==
  IF st.sink = "main" THEN [st EXCEPT !.main = @ \o pieces]
  ELSE [st EXCEPT !.externs = @ \o pieces]

\* visitExterns, line 585: this.output = this.externsOutput
EnterExterns(st) == [st EXCEPT !.sink = "externs"]

\* a faulty return, for comparison: this.output is not restored
OutputLeftOnExterns(st, originalOutput) == st

\* visitExterns, line 653: this.output = originalOutput
RestoreOutput(st, originalOutput) == [st EXCEPT !.sink = originalOutput]

\* maybeProcess, line 185: node.flags & ts.NodeFlags.Ambient
IsAmbient(node) == node.ambient

\* a faulty test, for comparison: the emitted set is not consulted
SkeletonEveryTime(emitted, nsName) == TRUE

\* line 606: the skeleton of the namespace has still to be emitted
NeedsSkeleton(emitted, nsName) == nsName \notin emitted

CurrentNamespace == IF stack = <<>> THEN <<>> ELSE stack[Len(stack)].namespace

NodeCount == Len(SelectSeq(anFile, LAMBDA n : n.kind # "Close"))

\* the nodes the walk may meet next: a top-level statement of the file, or
\* a statement of the namespace body being walked
NextNodes == IF stack = <<>> THEN TopLevelNodes ELSE NestedNodes

\* the statement is handed to visitExterns: by maybeProcess for a declared
\* top-level node, by the ModuleBlock loop for a statement of a namespace
ReachesExterns(node) == IF stack = <<>> THEN IsAmbient(node) ELSE TRUE

(***************************************************************************)
(* export * from "m".  The type checker's answers are part of the node:    *)
(* exports, the names getExportsOfModule returns for m, in its order; and  *)
(* scope, the symbols of the file's top-level scope, each [name, flags,    *)
(* declarations], flags one of "Export", "Alias", "Variable".              *)
(***************************************************************************)
Sym(name, flags, declarations) ==
  [name |-> name, flags |-> flags, declarations |-> declarations]

ExportStar(module, exports, scope) ==
  [kind |-> "ExportDeclaration", name |-> module, exportClause |-> FALSE,
   moduleSpecifier |-> TRUE, exports |-> exports, scope |-> scope, ambient |-> FALSE]

\* typeChecker.getSymbolsInScope(this.file, meaning)
GetSymbolsInScope(scope, meaning) == {sym \in scope : sym.flags \in meaning}

\* a faulty localSet, for comparison: import specifiers are not filtered
LocalSetOfAllAliases(scope) ==
  {local.name : local \in GetSymbolsInScope(scope, {"Export", "Alias"})}

\* lines 322-330: the keys of localSet
LocalSet(scope) ==
  {local.name : local \in
     {l \in GetSymbolsInScope(scope, {"Export", "Alias"}) :
        ~\E i \in DOMAIN l.declarations : l.declarations[i] = "ImportSpecifier"}}

\* a faulty loop, for comparison: generatedExports is not consulted
ReexportsIgnoringGenerated(exports, localSet, generated) ==
  SelectSeq(exports, LAMBDA name : name \notin localSet)

RECURSIVE Reexports(_, _, _)
\* lines 337-351: the keys of reexports, in the order they were added
Reexports(exports, localSet, generated) ==
  IF exports = <<>> THEN <<>>
  ELSE LET name == exports[1]
       IN IF name \in localSet \/ name \in generated
            THEN Reexports(Tail(exports), localSet, generated)
            ELSE <<name>> \o Reexports(Tail(exports), localSet, generated \cup {name})

\* expandSymbolsFromExportStar: the names it returns
ExpandSymbolsFromExportStar(generated, exportDecl) ==
  Reexports(exportDecl.exports, LocalSet(exportDecl.scope), generated)

IsExportStar(node) ==
  node.kind = "ExportDeclaration" /\ ~node.exportClause /\ node.moduleSpecifier

\* this.generatedExports after maybeProcess of the node
GeneratedAfter(generated, node) ==
  IF IsExportStar(node)
    THEN generated \cup Range(ExpandSymbolsFromExportStar(generated, node))
    ELSE generated

RECURSIVE JoinComma(_)
\* exports.join(',')
JoinComma(names) ==
  IF names = <<>> THEN ""
  ELSE IF Len(names) = 1 THEN names[1]
  ELSE names[1] \o "," \o JoinComma(Tail(names))

\* maybeProcess, case ExportDeclaration, lines 194-205
ProcessExport(generated, node) ==
  IF IsExportStar(node)
    THEN LET exports == ExpandSymbolsFromExportStar(generated, node)
         IN <<[APn("exportFrom", node.name) EXCEPT
                 !.params = exports,
                 !.rendered = "export {" \o JoinComma(exports) \o "} from"],
              APn("verbatim", node.name)>>
    ELSE AVerbatim(node)

\* maybeProcess for a node that is not ambient, lines 193-309
ProcessNode(ut, node) ==
  CASE node.kind = "InterfaceDeclaration" -> EmitInterface(ut, node) \o AVerbatim(node)
    [] node.kind = "ExportDeclaration" -> ProcessExport(generatedExports, node)
    [] node.kind = "VariableStatement" ->
         [i \in DOMAIN node.declarations |->
            IF node.declarations[i].nameKind = "Identifier"
              THEN EmitJSDocType(ut, node.declarations[i])[1]
              ELSE AP("noType")]
           \o AVerbatim(node)
    [] node.kind = "ClassDeclaration" -> ProcessClass(ut, node)
    [] node.kind = "FunctionDeclaration" ->
         IF node.hasBody THEN EmitFunctionType(ut, node, <<>>) \o AVerbatim(node)
         ELSE AVerbatim(node)
    [] node.kind = "TypeAliasDeclaration" -> VisitTypeAlias(ut, node) \o AVerbatim(node)
    [] node.kind = "EnumDeclaration" -> MaybeProcessEnum(ut, node)
    [] node.kind = "TypeAssertionExpression" ->
         EmitJSDocType(ut, node) \o <<AP("openParens")>> \o AVerbatim(node)
           \o <<AP("closeParens")>>
    [] OTHER -> AVerbatim(node)

\* the diagnostics of getJSDoc for a node that is not ambient
ProcessNodeErrors(node) ==
  IF node.kind = "FunctionDeclaration" /\ node.hasBody THEN GetJSDocErrors(node) ELSE <<>>

\* visitExterns of a node other than a namespace: what it emits
ExternsPieces(ut, node, namespace) ==
  CASE node.kind = "ModuleDeclaration" -> <<>>
    [] node.kind \in {"ClassDeclaration", "InterfaceDeclaration"} ->
         WriteExternsType(ut, node, namespace)
    [] node.kind = "FunctionDeclaration" ->
         EmitFunctionType(ut, node, <<>>)
           \o WriteExternsFunction(node.kind, node.name, node.parameters, namespace)
    [] node.kind = "VariableStatement" ->
         WriteExternsVariables(ut, node.declarations, namespace)
    [] node.kind = "EnumDeclaration" -> WriteExternsEnum(node, namespace)
    [] OTHER -> <<[AP("todo") EXCEPT !.text = node.kind \o " in " \o JoinDot(namespace)]>>

ExternsErrors(node, namespace) ==
  CASE node.kind \in {"ClassDeclaration", "InterfaceDeclaration"} ->
         WriteExternsTypeErrors(node, namespace)
    [] node.kind = "FunctionDeclaration" -> GetJSDocErrors(node)
    [] node.kind = "VariableStatement" ->
         IF \A i \in DOMAIN node.declarations : node.declarations[i].nameKind = "Identifier"
           THEN <<>> ELSE WriteExternsVariableErrors(node.declarations[1])
    [] OTHER -> <<>>

\* a faulty record, for comparison: type names are not recorded
TypeNamesForgotten(node, namespace) == {}

\* lines 657-658: writeExternsType records the type name, blacklisted or not
ExternsMarks(node, namespace) ==
  IF node.kind \in {"ClassDeclaration", "InterfaceDeclaration"}
    THEN {JoinDot(namespace \o <<node.name>>)} ELSE {}

IsNamespace(node) == node.kind = "ModuleDeclaration" /\ node.nameKind = "Identifier"

\* maybeProcess of a node that is not ambient
AnnMaybeProcess(node, maxNodes) ==
  /\ anPc = "visit" /\ stack = <<>> /\ NodeCount < maxNodes
  /\ ~IsAmbient(node)
  /\ LET st == Emit(Buffers, ProcessNode(untyped, node))
     IN /\ mainOutput' = st.main
        /\ externsOutput' = st.externs
        /\ sink' = st.sink
  /\ diagnostics' = diagnostics \o ProcessNodeErrors(node)
  /\ anFile' = Append(anFile, node)
  /\ generatedExports' = GeneratedAfter(generatedExports, node)
  /\ UNCHANGED <<anPc, untyped, emittedNamespaces, stack, result>>
  /\ UNCHANGED ppVars

\* visitExterns of a declaration other than an identifier-named namespace;
\* at the top level maybeProcess then copies the node (line 189)
AnnExternsLeaf(node) ==
  /\ anPc = "visit" /\ NodeCount < MaxNodes
  /\ node \in NextNodes
  /\ ReachesExterns(node)
  /\ ~IsNamespace(node)
  /\ LET originalOutput == sink
         visited == RestoreOutput(
                      Emit(EnterExterns(Buffers),
                           ExternsPieces(untyped, node, CurrentNamespace)),
                      originalOutput)
         st == IF stack = <<>> THEN Emit(visited, AVerbatim(node)) ELSE visited
     IN /\ mainOutput' = st.main
        /\ externsOutput' = st.externs
        /\ sink' = st.sink
  /\ emittedNamespaces' = emittedNamespaces \cup ExternsMarks(node, CurrentNamespace)
  /\ diagnostics' = diagnostics \o ExternsErrors(node, CurrentNamespace)
  /\ anFile' = Append(anFile, node)
  /\ UNCHANGED <<anPc, untyped, generatedExports, stack, result>>
  /\ UNCHANGED ppVars

\* visitExterns of "declare namespace foo {", lines 587-615, up to the walk
\* of the statements of its body
AnnExternsEnter(node) ==
  /\ anPc = "visit" /\ NodeCount < MaxNodes /\ Len(stack) < MaxDepth
  /\ node \in NextNodes
  /\ ReachesExterns(node)
  /\ IsNamespace(node)
  /\ LET namespace == CurrentNamespace \o <<node.name>>
         nsName == JoinDot(namespace)
         skeleton == IF NeedsSkeleton(emittedNamespaces, nsName)
                       THEN <<AP("constDoc"),
                              [APn("nsSkeleton", nsName) EXCEPT
                                 !.text = IF Len(namespace) > 1 THEN "assigned" ELSE "var"]>>
                       ELSE <<>>
         st == Emit(EnterExterns(Buffers), skeleton)
     IN /\ mainOutput' = st.main
        /\ externsOutput' = st.externs
        /\ sink' = st.sink
        /\ emittedNamespaces' = emittedNamespaces \cup {nsName}
        /\ stack' = Append(stack, [namespace |-> namespace, originalOutput |-> sink,
                                   node |-> node])
  /\ anFile' = Append(anFile, node)
  /\ UNCHANGED <<anPc, untyped, generatedExports, diagnostics, result>>
  /\ UNCHANGED ppVars

\* the end of a namespace body: visitExterns of the ModuleBlock and of the
\* ModuleDeclaration return, each restoring this.output (line 653)
AnnExternsLeave ==
  /\ anPc = "visit" /\ stack # <<>>
  /\ LET frame == stack[Len(stack)]
         left == RestoreOutput(RestoreOutput(Buffers, "externs"), frame.originalOutput)
         st == IF Len(stack) = 1 THEN Emit(left, AVerbatim(frame.node)) ELSE left
     IN /\ mainOutput' = st.main
        /\ externsOutput' = st.externs
        /\ sink' = st.sink
  /\ stack' = SubSeq(stack, 1, Len(stack) - 1)
  /\ anFile' = Append(anFile, Close)
  /\ UNCHANGED <<anPc, untyped, emittedNamespaces, generatedExports, diagnostics, result>>
  /\ UNCHANGED ppVars

ExternsMarker == [AP("externsMarker") EXCEPT !.text = "/** @externs */\n"]

\* annotate(), lines 166-175: the externs, <<>> for null
ExternsResult(externs) ==
  IF Len(externs) > 0 THEN <<ExternsMarker>> \o externs ELSE <<>>

AnnFinish ==
  /\ anPc = "visit" /\ stack = <<>>
  /\ anPc' = "done"
  /\ result' = [output |-> mainOutput, externs |-> ExternsResult(externsOutput),
                diagnostics |-> diagnostics]
  /\ UNCHANGED <<untyped, anFile, sink, mainOutput, externsOutput, emittedNamespaces,
                 generatedExports, diagnostics, stack>>
  /\ UNCHANGED ppVars

NoResult == [output |-> <<>>, externs |-> <<>>, diagnostics |-> <<>>]

AnnIdle ==
  /\ anPc = "visit"
  /\ anFile = <<>>
  /\ sink = "main"
  /\ mainOutput = <<>>
  /\ externsOutput = <<>>
  /\ emittedNamespaces = {}
  /\ generatedExports = {}
  /\ diagnostics = <<>>
  /\ stack = <<>>
  /\ result = NoResult

AnnInit == AnnIdle /\ untyped \in BOOLEAN

AnnNext ==
  \/ \E node \in NonAmbientNodes : AnnMaybeProcess(node, MaxNodes)
  \/ \E node \in AmbientDecls(TRUE) \cup AmbientDecls(FALSE) : AnnExternsLeaf(node)
  \/ \E node \in AmbientDecls(TRUE) \cup AmbientDecls(FALSE) : AnnExternsEnter(node)
  \/ AnnExternsLeave
  \/ AnnFinish

\* one file holding one function or one class
DeclNext ==
  \/ /\ anFile = <<>>
     /\ \E node \in FunctionInputs : AnnMaybeProcess(node, 1)
  \/ /\ anFile = <<>>
     /\ \E node \in ClassInputs : AnnMaybeProcess(node, 1)
  \/ /\ anFile = <<>>
     /\ \E node \in DeclaredInputs : AnnExternsLeaf(node)
  \/ AnnFinish

\* the files of SpecStar: export stars of modules over three names
MaxStars == 2
ModuleExports ==
  [m1 |-> <<"x", "y">>, m2 |-> <<"y", "z">>, m3 |-> <<"z", "x", "y">>, m4 |-> <<>>]

\* top-level scopes: exported x (export var x), y bound by import {y}, by
\* import * as y or by import y, z re-exported (export {z} from) or plain
Scopes ==
  {xs \cup ys \cup zs :
     xs \in {{}, {Sym("x", "Export", <<"VariableDeclaration">>)}},
     ys \in {{}, {Sym("y", "Alias", <<"ImportSpecifier">>)},
                  {Sym("y", "Alias", <<"NamespaceImport">>)},
                  {Sym("y", "Alias", <<"ImportClause">>)}},
     zs \in {{}, {Sym("z", "Alias", <<"ExportSpecifier">>)},
                  {Sym("z", "Variable", <<"VariableDeclaration">>)}}}

StarInputs ==
  {ExportStar(m, ModuleExports[m], scope) : m \in DOMAIN ModuleExports, scope \in Scopes}

\* one file of export stars; its scope is the same at each of them
StarNext ==
  \/ \E node \in StarInputs :
       /\ \A i \in DOMAIN anFile : anFile[i].scope = node.scope
       /\ AnnMaybeProcess(node, MaxStars)
  \/ AnnFinish

\* files of declarations that make the pass record diagnostics
ErrNext ==
  \/ \E node \in DocumentedNodes : AnnMaybeProcess(node, MaxNodes)
  \/ \E node \in FaultyDecls(TRUE) \cup FaultyDecls(FALSE) : AnnExternsLeaf(node)
  \/ \E node \in FaultyDecls(TRUE) \cup FaultyDecls(FALSE) : AnnExternsEnter(node)
  \/ AnnExternsLeave
  \/ AnnFinish

\* one file holding one enum
EnumNext ==
  \/ /\ anFile = <<>>
     /\ \E node \in EnumInputs : AnnMaybeProcess(node, 1)
  \/ AnnFinish

PostIdle == PostInit

InitPost == PostInit /\ AnnIdle /\ untyped = FALSE

InitAnn == AnnInit /\ PostIdle

SpecPost == InitPost /\ [][PostNext]_vars

SpecAnn == InitAnn /\ [][AnnNext]_vars

SpecEnum == InitAnn /\ [][EnumNext]_vars

SpecErr == InitAnn /\ [][ErrNext]_vars

SpecDecl == InitAnn /\ [][DeclNext]_vars

SpecStar == InitAnn /\ [][StarNext]_vars

(***************************************************************************)
(* Claims about the annotation pass, checked under SpecAnn.  The helpers   *)
(* read the file walked so far (anFile) and the two outputs.               *)
(***************************************************************************)
RECURSIVE OpenAt(_)
\* the names of the namespaces open after the first k tokens of the file
OpenAt(k) ==
  IF k = 0 THEN <<>>
  ELSE LET n == anFile[k]
           before == OpenAt(k - 1)
       IN IF n.kind = "Close" THEN SubSeq(before, 1, Len(before) - 1)
          ELSE IF n.kind = "ModuleDeclaration" /\ n.nameKind = "Identifier"
            THEN Append(before, n.name)
          ELSE before

\* the dotted name the declaration at i declares
QName(i) == JoinDot(OpenAt(i - 1) \o <<anFile[i].name>>)

\* the declaration at i stands in a declared region: it carries the declare
\* modifier at the top level, or it is a statement of a declared namespace
InDeclaredRegion(i) ==
  /\ anFile[i].kind # "Close"
  /\ (OpenAt(i - 1) # <<>> \/ anFile[i].ambient)

HasDeclareModifier == \E i \in DOMAIN anFile : anFile[i].ambient

IsNamespaceAt(i) ==
  anFile[i].kind = "ModuleDeclaration" /\ anFile[i].nameKind = "Identifier"

IsTypeAt(i) == anFile[i].kind \in {"ClassDeclaration", "InterfaceDeclaration"}

\* an earlier namespace, class or interface of the declared region has the
\* dotted name of the declaration at i
NamedBefore(i) ==
  \E j \in 1..(i - 1) :
    /\ InDeclaredRegion(j)
    /\ (IsNamespaceAt(j) \/ IsTypeAt(j))
    /\ QName(j) = QName(i)

\* the declaration at i puts text into the externs
AmbientEmits(i) ==
  /\ InDeclaredRegion(i)
  /\ CASE anFile[i].kind = "ModuleDeclaration" -> IsNamespaceAt(i) /\ ~NamedBefore(i)
       [] IsTypeAt(i) -> QName(i) \notin ClosureExternsBlacklist
       [] anFile[i].kind = "VariableStatement" ->
            \E d \in DOMAIN anFile[i].declarations :
              /\ anFile[i].declarations[d].nameKind = "Identifier"
              /\ JoinDot(OpenAt(i - 1) \o <<anFile[i].declarations[d].name>>)
                   \notin ClosureExternsBlacklist
       [] OTHER -> TRUE

IsSkeleton(piece) ==
  \/ piece.k \in {"nsSkeleton", "enumSkeleton"}
  \/ piece.k = "fnSkeleton" /\ piece.tag \in {"ClassDeclaration", "InterfaceDeclaration"}

\* the skeleton declarations of a dotted name in the externs
SkeletonCount(name) ==
  Cardinality({p \in DOMAIN externsOutput :
                 IsSkeleton(externsOutput[p]) /\ externsOutput[p].name = name})

NamespaceSkeletonCount(out, name) ==
  Cardinality({p \in DOMAIN out : out[p].k = "nsSkeleton" /\ out[p].name = name})

DeclaresName(i) ==
  /\ InDeclaredRegion(i)
  /\ (IsNamespaceAt(i) \/ IsTypeAt(i) \/ anFile[i].kind = "EnumDeclaration")

DeclaredNames == {QName(i) : i \in {j \in DOMAIN anFile : DeclaresName(j)}}

\* the skeletons the code emits for a dotted name: one per class or
\* interface declaration off the blacklist, one per enum declaration, one
\* for the first namespace declaration no namespace, class or interface of
\* that name precedes
ExpectedSkeletons(name) ==
  Cardinality({i \in DOMAIN anFile :
    /\ DeclaresName(i)
    /\ QName(i) = name
    /\ \/ IsTypeAt(i) /\ name \notin ClosureExternsBlacklist
       \/ anFile[i].kind = "EnumDeclaration"
       \/ IsNamespaceAt(i) /\ ~NamedBefore(i)})

\* C5: a file with no declared node returns no externs, and nothing emitted
\* for a node outside declared regions is appended to the externs buffer
C5_NoAmbientNoExterns ==
  /\ [](/\ ~HasDeclareModifier => externsOutput = <<>>
        /\ (~HasDeclareModifier /\ anPc = "done") => result.externs = Null
        /\ stack = <<>> => sink = "main")
  /\ [][(/\ stack = <<>>
         /\ Len(anFile') = Len(anFile) + 1
         /\ ~anFile'[Len(anFile')].ambient) => externsOutput' = externsOutput]_vars

C5_Witness ==
  /\ anPc = "done"
  /\ ~HasDeclareModifier
  /\ {anFile[i].kind : i \in DOMAIN anFile}
       = {"InterfaceDeclaration", "ClassDeclaration", "EnumDeclaration"}
  /\ result.externs = Null
  /\ result.output # <<>>

\* C6 as stated: once a declared node was met, the returned externs are
\* present and begin with the marker, whatever the kind of the node
C6_AnyAmbientHasExterns ==
  (anPc = "done" /\ HasDeclareModifier) =>
    (result.externs # Null /\ result.externs[1] = ExternsMarker)

\* C6 amended: the returned externs are present exactly when a node of a
\* declared region put text into them, and then they begin with the marker
\* followed by that text; a string-named module, a blacklisted variable or
\* type and a namespace already named put none
C6_ExternsIffAmbientEmits ==
  anPc = "done" =>
    /\ result.externs # Null <=> \E i \in DOMAIN anFile : AmbientEmits(i)
    /\ result.externs # Null =>
         /\ result.externs[1] = ExternsMarker
         /\ SubSeq(result.externs, 2, Len(result.externs)) = externsOutput

C6_Witness ==
  /\ anPc = "done"
  /\ \E i \in DOMAIN anFile :
       anFile[i].kind = "ModuleDeclaration" /\ anFile[i].nameKind = "StringLiteral"
  /\ \E i \in DOMAIN anFile :
       anFile[i].kind = "VariableStatement" /\ anFile[i].ambient /\ QName(i) = "Symbol"
  /\ \E i \in DOMAIN anFile : AmbientEmits(i)
  /\ result.externs # Null
  /\ result.externs[1] = ExternsMarker

\* C7: the skeleton of a namespace path is in the externs at most once;
\* entering a namespace emits it exactly when the path was not in the
\* emitted set, which holds the path afterwards; and the body is walked
\* under the extended path on every occurrence
C7_NamespaceSkeletonOnce ==
  /\ [](/\ \A p \in DOMAIN externsOutput :
             externsOutput[p].k = "nsSkeleton" =>
               /\ NamespaceSkeletonCount(externsOutput, externsOutput[p].name) = 1
               /\ externsOutput[p].name \in emittedNamespaces
        /\ CurrentNamespace = OpenAt(Len(anFile))
        /\ \A i \in DOMAIN anFile :
             (InDeclaredRegion(i) /\ anFile[i].kind = "FunctionDeclaration") =>
               \E p \in DOMAIN externsOutput :
                 externsOutput[p].k = "fnSkeleton" /\ externsOutput[p].name = QName(i))
  /\ [][Len(stack') > Len(stack) =>
          LET nsName == JoinDot(stack'[Len(stack')].namespace)
          IN /\ nsName \in emittedNamespaces'
             /\ NamespaceSkeletonCount(externsOutput', nsName)
                  = NamespaceSkeletonCount(externsOutput, nsName)
                      + (IF nsName \in emittedNamespaces THEN 0 ELSE 1)]_vars

C7_Witness ==
  /\ Len(anFile) = 5
  /\ IsNamespaceAt(1) /\ anFile[2].kind = "Close"
  /\ IsNamespaceAt(3) /\ anFile[3].name = anFile[1].name
  /\ anFile[4].kind = "FunctionDeclaration"
  /\ anFile[5].kind = "Close"
  /\ NamespaceSkeletonCount(externsOutput, anFile[1].name) = 1
  /\ \E p \in DOMAIN externsOutput :
       externsOutput[p].k = "fnSkeleton" /\ externsOutput[p].name = QName(4)

\* C8 as stated: every dotted name declared by a namespace, class, interface
\* or enum of a declared region has exactly one skeleton in the externs
C8_OneSkeletonPerName == \A name \in DeclaredNames : SkeletonCount(name) = 1

\* C8 amended: only the namespace skeleton is deduplicated; a dotted name
\* has one skeleton per class or interface declaration off the blacklist,
\* one per enum declaration, and one for its first namespace declaration
\* unless a namespace, class or interface of that name precedes it
C8_SkeletonPerDeclaration ==
  \A name \in DeclaredNames : SkeletonCount(name) = ExpectedSkeletons(name)

C8_Witness ==
  /\ anPc = "done"
  /\ \E i, j \in DOMAIN anFile :
       /\ i < j
       /\ IsNamespaceAt(i) /\ anFile[i].ambient
       /\ anFile[j].kind = "ClassDeclaration" /\ anFile[j].ambient
       /\ QName(i) = QName(j)
       /\ SkeletonCount(QName(i)) = 2
  /\ \E i \in DOMAIN anFile :
       anFile[i].kind = "InterfaceDeclaration" /\ anFile[i].ambient /\ QName(i) = "Symbol"
  /\ SkeletonCount("Symbol") = 0

\* C10 as stated: with untyped set, every type rendering in the main output
\* and in the externs is "?"
C10_UntypedRendersUnknown ==
  untyped =>
    /\ \A p \in DOMAIN mainOutput : mainOutput[p].type \in {"", "?"}
    /\ \A p \in DOMAIN externsOutput : externsOutput[p].type \in {"", "?"}

\* C10 without the members of declared enums: with untyped set, the
\* renderings other than "?" are those writeExternsEnum
\* emits for the members of a declared enum
C10_UntypedExceptDeclaredEnum ==
  untyped =>
    /\ \A p \in DOMAIN mainOutput : mainOutput[p].type \in {"", "?"}
    /\ \A p \in DOMAIN externsOutput :
         externsOutput[p].type \notin {"", "?"} => externsOutput[p].k = "enumMemberType"

\* the output of a file copied as it stands: the text of each node, in order
PassThroughOutput == [i \in DOMAIN anFile |-> APn("verbatim", anFile[i].name)]

HasKind(kinds) == \E i \in DOMAIN anFile : anFile[i].kind \in kinds

\* the node at i, outside declared regions, is one the pass writes text for
SynthesizesAt(i) ==
  CASE anFile[i].kind = "InterfaceDeclaration" -> ~untyped
    [] anFile[i].kind = "TypeAliasDeclaration" -> ~untyped
    [] anFile[i].kind = "EnumDeclaration" -> ~anFile[i].const
    [] anFile[i].kind = "FunctionDeclaration" -> anFile[i].hasBody
    [] anFile[i].kind = "VariableStatement" ->
         \E d \in DOMAIN anFile[i].declarations :
           anFile[i].declarations[d].nameKind = "Identifier"
    [] anFile[i].kind = "TypeAssertionExpression" -> TRUE
    [] OTHER -> FALSE

\* C13 as stated: a file with no interface, class, enum or declared region
\* is copied to the main output as it stands, and has no externs
C13_RoundTrip ==
  (/\ ~HasDeclareModifier
   /\ ~HasKind({"InterfaceDeclaration", "ClassDeclaration", "EnumDeclaration"})) =>
    /\ mainOutput = PassThroughOutput
    /\ anPc = "done" => (result.output = PassThroughOutput /\ result.externs = Null)

\* C13 amended: a file with no class and no declared region is copied as it
\* stands exactly when it also holds no variable declaration of a plain
\* name, no function with a body, no type assertion, no non-constant enum
\* and, unless untyped is set, no interface and no type alias; it has no
\* externs either way
C13_PassThroughUnlessAnnotated ==
  (~HasDeclareModifier /\ ~HasKind({"ClassDeclaration"})) =>
    /\ mainOutput = PassThroughOutput <=> \A i \in DOMAIN anFile : ~SynthesizesAt(i)
    /\ anPc = "done" => (result.output = mainOutput /\ result.externs = Null)

C13_Witness ==
  /\ anPc = "done"
  /\ untyped
  /\ Len(anFile) = 3
  /\ {anFile[i].kind : i \in DOMAIN anFile}
       = {"InterfaceDeclaration", "TypeAliasDeclaration", "ExpressionStatement"}
  /\ ~HasDeclareModifier
  /\ result.output = PassThroughOutput
  /\ result.externs = Null

\* C18 as stated: nothing in the externs declares a dotted name that is on
\* the blacklist, whichever kind of declaration names it
C18_BlacklistNeverDeclared ==
  \A p \in DOMAIN externsOutput : externsOutput[p].name \notin ClosureExternsBlacklist

\* C18 for the kinds that consult the blacklist: a blacklisted name is
\* declared in the externs only by a function, a namespace or an enum
C18_BlacklistKeptByTypesAndVariables ==
  \A p \in DOMAIN externsOutput :
    externsOutput[p].name \in ClosureExternsBlacklist =>
      \/ externsOutput[p].k \in {"nsSkeleton", "enumSkeleton"}
      \/ externsOutput[p].k = "fnSkeleton" /\ externsOutput[p].tag = "FunctionDeclaration"

(***************************************************************************)
(* Claims about diagnostics, checked under SpecErr.                        *)
(***************************************************************************)
HasDoc(node) == "doc" \in DOMAIN node

Undocumented(node) == [node EXCEPT !.doc = NoComment]

TypeAnnotationError(node) ==
  [node |-> node, message |-> "type annotations are not allowed"]

DiagnosticsOf(node) == {p \in DOMAIN diagnostics : diagnostics[p].node = node}

Visited(node) == anFile' = Append(anFile, node)

\* C20: a declaration whose documentation comment holds @type, or @param or
\* @return with a type in braces, has a diagnostic positioned at it.
C20_RejectedDocRecorded ==
  \A i \in DOMAIN anFile :
    (HasDoc(anFile[i]) /\ JSDocThrows(anFile[i].doc)) => DiagnosticsOf(anFile[i]) # {}

\* C20, for a function whose comment block is written (one with a body, or
\* one handed to the externs walk): the step records the diagnostic and
\* emits what it emits for the same function without the comment.
C20_CallableDocRecorded ==
  [][\A node \in FaultyDecls(TRUE) \cup FaultyDecls(FALSE) \cup DocumentedNodes :
       (/\ Visited(node)
        /\ node.kind = "FunctionDeclaration"
        /\ JSDocThrows(node.doc)
        /\ (node.hasBody \/ ReachesExterns(node)))
       => /\ diagnostics' = Append(diagnostics, TypeAnnotationError(node))
          /\ mainOutput' = mainOutput \o
               (IF stack # <<>> THEN <<>>
                ELSE IF IsAmbient(node) THEN AVerbatim(node)
                ELSE ProcessNode(untyped, Undocumented(node)))
          /\ externsOutput' = externsOutput \o
               (IF ReachesExterns(node)
                  THEN ExternsPieces(untyped, Undocumented(node), CurrentNamespace)
                  ELSE <<>>)]_vars

\* C17: a visit of an ambient subtree that returns leaves the sink it found
\* (main at the top level, externs inside a namespace), also when the
\* subtree recorded diagnostics; a node outside declared regions then
\* writes to main and nothing to externs.
C17_SinkRestored ==
  /\ [](stack = <<>> => sink = "main")
  /\ [][/\ Len(stack') <= Len(stack)
            => sink' = (IF stack' = <<>> THEN "main" ELSE "externs")
        /\ \A node \in DocumentedNodes :
             Visited(node) => /\ externsOutput' = externsOutput
                              /\ Len(mainOutput') > Len(mainOutput)]_vars

\* a namespace whose class recorded a diagnostic was left, and a later
\* statement outside declared regions went to main
C17_Witness ==
  \E i, j, k \in DOMAIN anFile :
    /\ i < j /\ j < k /\ k = Len(anFile)
    /\ anFile[i].kind = "ClassDeclaration" /\ OpenAt(i) # <<>>
    /\ \E p \in DOMAIN diagnostics : diagnostics[p].node \in Range(anFile[i].members)
    /\ anFile[j] = Close /\ OpenAt(j + 1) = <<>>
    /\ anFile[k] \in DocumentedNodes
    /\ sink = "main"
    /\ mainOutput[Len(mainOutput)] = APn("verbatim", anFile[k].name)

Constructors(decl) == SelectSeq(decl.members, LAMBDA m : m.kind = "Constructor")

MultipleConstructors(node) ==
  node.kind = "ClassDeclaration" /\ Len(Constructors(node)) >= 2

\* what a step appended to a sequence
Appended(before, after) == SubSeq(after, Len(before) + 1, Len(after))

MultipleConstructorError(ctor) ==
  [node |-> ctor, message |-> "multiple constructor signatures in declarations"]

\* the skeleton of the class is appended once, with the parameter names of
\* its first constructor, and the members after the constructors follow it
SkeletonFromFirstConstructor(node, added) ==
  LET ctor == Constructors(node)[1]
      typeName == JoinDot(CurrentNamespace \o <<node.name>>)
      skeletons == {p \in DOMAIN added : added[p].k = "fnSkeleton"}
  IN /\ Cardinality(skeletons) = 1
     /\ \A p \in skeletons :
          /\ added[p].name = typeName
          /\ added[p].params = [i \in DOMAIN ctor.parameters |-> ctor.parameters[i].name]
          /\ \A m \in Range(node.members) :
               m.kind \in {"PropertyDeclaration", "MethodDeclaration"}
               => \E q \in DOMAIN added :
                    /\ q > p
                    /\ added[q].k \in {"propDecl", "methodDecl"}
                    /\ added[q].name = typeName \o ".prototype." \o m.name

\* C19, as stated: the visit of an ambient class with two or more
\* constructors records exactly one diagnostic, at the second constructor,
\* emits the skeleton once from the first constructor, and the walk goes on.
C19_OneDiagnosticOneSkeleton ==
  [][\A node \in FaultyDecls(TRUE) \cup FaultyDecls(FALSE) :
       (Visited(node) /\ MultipleConstructors(node))
       => /\ Appended(diagnostics, diagnostics')
               = <<MultipleConstructorError(Constructors(node)[2])>>
          /\ SkeletonFromFirstConstructor(node, Appended(externsOutput, externsOutput'))
          /\ anPc' = "visit"]_vars

\* C19, amended: for a class that is not on the blacklist, exactly one
\* diagnostic of multiple constructors is recorded, at the second
\* constructor (a rejected comment adds its own), and the skeleton is
\* emitted once from the first constructor; a blacklisted class records
\* nothing and emits nothing.  The walk goes on either way.
C19_UnlessBlacklisted ==
  [][\A node \in FaultyDecls(TRUE) \cup FaultyDecls(FALSE) :
       (Visited(node) /\ MultipleConstructors(node))
       => /\ anPc' = "visit"
          /\ IF JoinDot(CurrentNamespace \o <<node.name>>) \in ClosureExternsBlacklist
               THEN /\ diagnostics' = diagnostics
                    /\ externsOutput' = externsOutput
               ELSE /\ SelectSeq(Appended(diagnostics, diagnostics'),
                                 LAMBDA d : d.message
                                   = "multiple constructor signatures in declarations")
                         = <<MultipleConstructorError(Constructors(node)[2])>>
                    /\ SkeletonFromFirstConstructor(node,
                         Appended(externsOutput, externsOutput'))]_vars

\* a class of three constructors was visited inside a namespace, and the
\* function after it was visited too
C19_Witness ==
  \E i \in DOMAIN anFile :
    /\ i < Len(anFile)
    /\ MultipleConstructors(anFile[i])
    /\ Len(Constructors(anFile[i])) = 3
    /\ OpenAt(i) # <<>>
    /\ anFile[i + 1].kind = "FunctionDeclaration"
    /\ \E p \in DOMAIN diagnostics :
         diagnostics[p] = MultipleConstructorError(Constructors(anFile[i])[2])
    /\ \E p \in DOMAIN externsOutput :
         externsOutput[p].k = "fnSkeleton" /\ externsOutput[p].name = QName(i)

(***************************************************************************)
(* Claims about one function or one class, checked under SpecDecl.         *)
(***************************************************************************)
ParamTags ==
  SelectSeq(mainOutput \o externsOutput, LAMBDA p : p.k = "tag" /\ p.tag = "param")

ElementType(type) == type.typeArguments[1]

Destructuring(q) == q.nameKind \in {"ArrayBindingPattern", "ObjectBindingPattern"}

\* C14: the @param tag of a rest parameter of type Array<T> carries the
\* rendering of T behind "...", not that of the array; a tag is optional,
\* and its type ends in "=", exactly when the parameter has an initializer
\* or a question mark.
C14_RestAndOptionalParams ==
  \A n \in DOMAIN anFile :
    anFile[n].kind = "FunctionDeclaration" =>
      /\ Len(ParamTags) = Len(anFile[n].parameters)
      /\ \A i \in DOMAIN anFile[n].parameters :
           LET q == anFile[n].parameters[i]
               tag == ParamTags[i]
               optional == q.initializer \/ q.questionToken
               doc == IF tag.text # "" THEN " " \o tag.text ELSE ""
           IN /\ tag.name = q.name
              /\ tag.optional <=> optional
              /\ tag.rest <=> q.dotDotDotToken
              /\ q.dotDotDotToken =>
                   /\ tag.type = TypeToClosure(untyped, ElementType(q.type), Destructuring(q))
                   /\ ~untyped => tag.type # TypeToClosure(untyped, q.type, Destructuring(q))
              /\ tag.rendered =
                   " * @param {" \o (IF q.dotDotDotToken THEN "..." ELSE "") \o tag.type
                     \o (IF optional THEN "=" ELSE "") \o "} " \o q.name \o doc \o "\n"

\* f(x = ..., ...y: number[][]) under a comment describing x was annotated
C14_Witness ==
  /\ Len(anFile) = 1 /\ anFile[1].kind = "FunctionDeclaration"
  /\ Len(ParamTags) = 2
  /\ ParamTags[1].rendered = " * @param {string=} x the x\n"
  /\ ParamTags[2].rendered = " * @param {...Array<number>} y\n"

HelperAt == {p \in DOMAIN mainOutput : mainOutput[p].k = "helperOpen"}

DeclaresField(class) ==
  \E m \in Range(class.members) : m.kind = "PropertyDeclaration"

ParameterProperties(ctor) == SelectSeq(ctor.parameters, LAMBDA q : q.visibility)

\* the helper stands after the output of every member and closes right
\* before the closing brace of the class
HelperPlacedLast ==
  \A p \in HelperAt :
    /\ \A q \in DOMAIN mainOutput :
         (mainOutput[q].k \in {"classHeader", "verbatim", "docOpen", "docClose", "tag"})
         => q < p
    /\ mainOutput[Len(mainOutput) - 1].k = "helperClose"
    /\ mainOutput[Len(mainOutput)].k = "classClose"

\* C12: a class gains the type annotations helper exactly when it declares a
\* field, static or not, or a constructor parameter with a visibility
\* modifier; the helper stands after the members, before the closing brace.
C12_HelperIffFieldsOrParamProps ==
  \A n \in DOMAIN anFile :
    anFile[n].kind = "ClassDeclaration" =>
      /\ HelperAt # {}
           <=> \/ DeclaresField(anFile[n])
               \/ \E c \in Range(Constructors(anFile[n])) : ParameterProperties(c) # <<>>
      /\ HelperPlacedLast

\* C12, with the parameter properties the code looks at: those of the first
\* constructor signature of the class.
C12_HelperIffFirstConstructor ==
  \A n \in DOMAIN anFile :
    anFile[n].kind = "ClassDeclaration" =>
      /\ HelperAt # {}
           <=> \/ DeclaresField(anFile[n])
               \/ /\ Constructors(anFile[n]) # <<>>
                  /\ ParameterProperties(Constructors(anFile[n])[1]) # <<>>
      /\ Cardinality(HelperAt) <= 1
      /\ HelperPlacedLast

(***************************************************************************)
(* Claims about export stars, checked under SpecStar.                      *)
(***************************************************************************)
ExportFromPieces == SelectSeq(mainOutput, LAMBDA p : p.k = "exportFrom")

\* the names the file exports itself: export var x, export {z} from "..."
LocalExports(scope) ==
  {sym.name : sym \in {l \in scope : \/ l.flags = "Export"
                                      \/ "ExportSpecifier" \in Range(l.declarations)}}

\* the names bound in the file other than by import {y}
NotImportSpecifiers(scope) ==
  {sym.name : sym \in {l \in scope : /\ l.flags \in {"Export", "Alias"}
                                      /\ "ImportSpecifier" \notin Range(l.declarations)}}

GeneratedBefore(n) == UNION {Range(ExportFromPieces[i].params) : i \in 1..(n - 1)}

NoDuplicates(seq) == \A i, j \in DOMAIN seq : i # j => seq[i] # seq[j]

\* the n-th export star lists the exports of its module outside skipped
\* and outside the lists of the export stars before it
ListsAllBut(n, skipped) ==
  /\ n <= Len(ExportFromPieces)
  /\ NoDuplicates(ExportFromPieces[n].params)
  /\ Range(ExportFromPieces[n].params)
       = {name \in Range(anFile[n].exports) :
            name \notin skipped /\ name \notin GeneratedBefore(n)}

\* C11: the list written for export * from "m" holds exactly the exports
\* of m that are neither local exports of the file nor generated by an
\* earlier expansion; a name the file merely imports is not a local export.
C11_ReexportsAllButLocalExports ==
  \A n \in DOMAIN anFile :
    IsExportStar(anFile[n]) => ListsAllBut(n, LocalExports(anFile[n].scope))

\* C11, with the names the code skips: every exported or aliased name of the
\* file's scope that is not declared by an import specifier.
C11_ReexportsAllButLocalSet ==
  \A n \in DOMAIN anFile :
    IsExportStar(anFile[n]) => ListsAllBut(n, NotImportSpecifiers(anFile[n].scope))

\* C11, the example: m exports x and y, the file exports x and nothing else
\* of that name is in scope; the list is y.
C11_Example ==
  \A n \in DOMAIN anFile :
    (/\ IsExportStar(anFile[n])
     /\ anFile[n].exports = <<"x", "y">>
     /\ anFile[n].scope = {Sym("x", "Export", <<"VariableDeclaration">>)}
     /\ n = 1)
    => ExportFromPieces[n].rendered = "export {y} from"

\* the export stars of the file whose module exports the name
ExportersOf(name) ==
  {n \in DOMAIN anFile : IsExportStar(anFile[n]) /\ name \in Range(anFile[n].exports)}

ListedAt(name) ==
  {n \in DOMAIN ExportFromPieces : name \in Range(ExportFromPieces[n].params)}

\* C23: over the export stars of one file no name stands in two of the
\* written lists; a name that is listed is listed by the first export star
\* whose module exports it, and a name the file does not shadow is listed
\* there; generatedExports only grows.
C23_ReexportedOnceByFirst ==
  /\ [](\A name \in UNION {Range(anFile[n].exports) : n \in DOMAIN anFile} :
          /\ Cardinality(ListedAt(name)) <= 1
          /\ \A n \in ListedAt(name) :
               /\ n \in ExportersOf(name)
               /\ \A e \in ExportersOf(name) : n <= e
               /\ name \in generatedExports
          /\ (\A n \in DOMAIN anFile : name \notin NotImportSpecifiers(anFile[n].scope))
             => ListedAt(name) # {})
  /\ [][generatedExports \subseteq generatedExports']_vars

\* two export stars whose modules both export y: the first lists it, the
\* second lists what is left
C23_Witness ==
  /\ Len(anFile) = 2 /\ Len(ExportFromPieces) = 2
  /\ anFile[1].exports = <<"x", "y">> /\ anFile[2].exports = <<"y", "z">>
  /\ ExportFromPieces[1].params = <<"x", "y">>
  /\ ExportFromPieces[2].params = <<"z">>
  /\ generatedExports = {"x", "y", "z"}

RECURSIVE Blocks(_)
\* the comment blocks of an output: the tags between each docOpen and the
\* docClose after it
Blocks(out) ==
  IF out = <<>> THEN <<>>
  ELSE IF out[1].k = "docOpen"
    THEN LET close == CHOOSE c \in DOMAIN out :
                        /\ out[c].k = "docClose"
                        /\ \A d \in 1..(c - 1) : out[d].k # "docClose"
         IN <<SubSeq(out, 2, close - 1)>> \o Blocks(SubSeq(out, close + 1, Len(out)))
  ELSE Blocks(Tail(out))

\* the callables of the node whose comment block is written, in the order
\* of writing, each with the tags its caller adds
Callables(node) ==
  LET plain(seq) == [i \in DOMAIN seq |-> [fn |-> seq[i], extra |-> <<>>]]
  IN IF node.kind = "FunctionDeclaration" THEN plain(<<node>>)
     ELSE IF ~node.ambient
       THEN plain(SelectSeq(node.members, LAMBDA m :
                    m.kind = "Constructor" \/ (m.kind = "MethodDeclaration" /\ m.hasBody)))
     ELSE (IF Constructors(node) # <<>>
             THEN <<[fn |-> Constructors(node)[1], extra |-> <<"constructor", "struct">>]>>
             ELSE <<>>)
          \o plain(SelectSeq(node.members, LAMBDA m : m.kind = "MethodDeclaration"))

\* the text of the first hand-written tag of that name and parameter
FirstTextOf(tags, tagName, parameterName) ==
  LET hits == {j \in DOMAIN tags : /\ tags[j].tagName = tagName
                                   /\ tags[j].parameterName = parameterName}
  IN IF hits = {} THEN ""
     ELSE tags[CHOOSE j \in hits : \A h \in hits : j <= h].text

\* the block holds the extra tags, the hand-written tags other than @param
\* and @return, one @param per parameter and, unless the callable is a
\* constructor, one @return, in this order and nothing else
BlockInOrder(block, fn, extra) ==
  LET written == GetJSDoc(fn)
      others == SelectSeq(written, LAMBDA t : t.tagName \notin {"param", "return"})
      nE == Len(extra)
      nO == Len(others)
      nP == Len(fn.parameters)
  IN /\ Len(block) = nE + nO + nP + (IF fn.kind = "Constructor" THEN 0 ELSE 1)
     /\ \A i \in 1..nE : block[i].tag = extra[i]
     /\ \A i \in 1..nO : /\ block[nE + i].tag = others[i].tagName
                          /\ block[nE + i].text = others[i].text
     /\ \A i \in 1..nP :
          /\ block[nE + nO + i].tag = "param"
          /\ block[nE + nO + i].name = fn.parameters[i].name
          /\ block[nE + nO + i].text = FirstTextOf(written, "param", fn.parameters[i].name)
     /\ fn.kind # "Constructor" =>
          /\ block[Len(block)].tag = "return"
          /\ block[Len(block)].text = FirstTextOf(written, "return", "")
     /\ fn.kind = "Constructor" => \A i \in DOMAIN block : block[i].tag # "return"

\* C21, as stated: each comment block written for a callable is the
\* hand-written tags other than @param and @return, then one @param per
\* parameter, then one @return (none for a constructor).
C21_TagOrder ==
  \A n \in DOMAIN anFile :
    LET blocks == Blocks(mainOutput \o externsOutput)
        callables == Callables(anFile[n])
    IN /\ Len(blocks) = Len(callables)
       /\ \A b \in DOMAIN blocks : BlockInOrder(blocks[b], callables[b].fn, <<>>)

\* C21, amended: the tags the caller adds (@constructor and @struct for the
\* constructor of a declared class) stand first in the block.
C21_TagOrderAfterExtraTags ==
  \A n \in DOMAIN anFile :
    LET blocks == Blocks(mainOutput \o externsOutput)
        callables == Callables(anFile[n])
    IN /\ Len(blocks) = Len(callables)
       /\ \A b \in DOMAIN blocks :
            BlockInOrder(blocks[b], callables[b].fn, callables[b].extra)

\* the constructor of a declared class under the mixed comment: the two
\* extra tags, the text, @export, @deprecated, then x with the first of
\* its two texts and y, and no @return
C21_Witness ==
  /\ Len(anFile) = 1 /\ anFile[1].kind = "ClassDeclaration" /\ anFile[1].ambient
  /\ Len(Blocks(externsOutput)) = 2
  /\ LET block == Blocks(externsOutput)[1]
     IN /\ [i \in DOMAIN block |-> block[i].tag]
             = <<"constructor", "struct", "", "export", "deprecated", "param", "param">>
        /\ block[6].text = "first x"
        /\ block[7].text = "the y"

(***************************************************************************)
(* Claims about the enum rewrite, checked under SpecEnum.                  *)
(***************************************************************************)
\* the value the running counter gives member i of the list: the members
\* with no initializer since the last constant, counted from that constant
\* plus one, or from 0 when no constant precedes
ImplicitValue(members, i) ==
  LET constants == {j \in 1..(i - 1) : members[j].initializer = "constant"}
      last == IF constants = {} THEN 0
              ELSE CHOOSE j \in constants : \A k \in constants : k <= j
      start == IF last = 0 THEN 0 ELSE members[last].value + 1
  IN start + Cardinality({k \in (last + 1)..(i - 1) : members[k].initializer = "none"})

ExpectedValueText(members, i) ==
  CASE members[i].initializer = "constant" -> ToString(members[i].value)
    [] members[i].initializer = "expression" -> "initializer of " \o members[i].name
    [] OTHER -> ToString(ImplicitValue(members, i))

EnumValues == SelectSeq(mainOutput, LAMBDA piece : piece.k = "enumValue")

\* C9: the values assigned to the members of a non-constant enum are those
\* of the running counter: the counter for a member with no initializer,
\* v for a constant initializer v (the counter continuing from v + 1), the
\* initializer itself otherwise
C9_EnumCounter ==
  (Len(anFile) = 1 /\ anFile[1].kind = "EnumDeclaration" /\ ~anFile[1].const) =>
    /\ Len(EnumValues) = Len(anFile[1].members)
    /\ \A i \in DOMAIN anFile[1].members :
         /\ EnumValues[i].name = anFile[1].name \o "." \o anFile[1].members[i].name
         /\ EnumValues[i].text = ExpectedValueText(anFile[1].members, i)
         /\ EnumValues[i].tag = "number" <=> anFile[1].members[i].initializer # "expression"

C9_Witness ==
  /\ anPc = "done"
  /\ Len(anFile) = 1
  /\ anFile[1].members = ExampleEnumMembers
  /\ [i \in DOMAIN EnumValues |-> EnumValues[i].text] = <<"0", "5", "6">>

PositionsOf(kinds) == {p \in DOMAIN mainOutput : mainOutput[p].k \in kinds}

EnumReverses == SelectSeq(mainOutput, LAMBDA piece : piece.k = "enumReverse")

\* C22: the output of a non-constant enum is the type alias, the binding,
\* one value assignment per member in declaration order, then one
\* reverse-lookup assignment per member in declaration order; every value
\* assignment stands before every reverse-lookup assignment.
C22_EnumOutputOrder ==
  (Len(anFile) = 1 /\ anFile[1].kind = "EnumDeclaration" /\ ~anFile[1].const) =>
    LET name == anFile[1].name
        members == anFile[1].members
    IN /\ PositionsOf({"enumAlias"}) = {1} /\ mainOutput[1].name = name
       /\ PositionsOf({"enumLet"}) = {2} /\ mainOutput[2].name = name
       /\ [i \in DOMAIN EnumValues |-> EnumValues[i].name]
            = [i \in DOMAIN members |-> name \o "." \o members[i].name]
       /\ [i \in DOMAIN EnumReverses |-> EnumReverses[i].text]
            = [i \in DOMAIN members |-> members[i].name]
       /\ \A i \in DOMAIN EnumReverses :
            EnumReverses[i].name = name \o "." \o EnumReverses[i].text
       /\ \A v \in PositionsOf({"enumValue", "enumMemberType"}) :
            /\ v > 2
            /\ \A r \in PositionsOf({"enumReverse"}) : v < r
       /\ PositionsOf({"enumAlias", "enumLet", "enumValue", "enumMemberType",
                       "enumReverse"}) = DOMAIN mainOutput

\* enum E { A, B = 5, C } was rewritten: values for A, B, C, then the
\* reverse lookups of A, B, C
C22_Witness ==
  /\ Len(anFile) = 1
  /\ anFile[1].members = ExampleEnumMembers
  /\ [i \in DOMAIN EnumValues |-> EnumValues[i].name] = <<"E.A", "E.B", "E.C">>
  /\ [i \in DOMAIN EnumReverses |-> EnumReverses[i].text] = <<"A", "B", "C">>
  /\ mainOutput[Len(mainOutput)].k = "enumReverse"
====
